---- MODULE Spec2Model ----
(***************************************************************************)
(* Model of the generation layer of sked: the RefusalDetector, the MODELS  *)
(* registry, ModelManager (initialize, generateWithFallback) and           *)
(* ModelLoader (initialize, generate, analyzeRepository, dispose); and of  *)
(* its reasoning layer: OpenReasoner, AdaReasoner and the                  *)
(* ReasoningOrchestrator (analyze, combineResults).                        *)
(*                                                                         *)
(* Spec and SpecSeq are the generation layer, SpecReason is a call of      *)
(* ReasoningOrchestrator.analyze, SpecCombine is combineResults applied to *)
(* pairs of results, SpecDetector is the RefusalDetector applied to texts. *)
(*                                                                         *)
(* JavaScript strings are sequences of one-character strings, so that      *)
(* toLowerCase, substring, includes, trim and concatenation are computed.  *)
(* Asynchronous calls are cut at their awaits: every action runs one       *)
(* synchronous stretch of code, from one await (or the call) to the next.  *)
(***************************************************************************)
EXTENDS Integers, Sequences, FiniteSets, TLC

\* ------------------------------------------------------------------------
\* Strings
\* ------------------------------------------------------------------------

UpperCase ==
  <<"A","B","C","D","E","F","G","H","I","J","K","L","M",
    "N","O","P","Q","R","S","T","U","V","W","X","Y","Z">>

LowerCase ==
  <<"a","b","c","d","e","f","g","h","i","j","k","l","m",
    "n","o","p","q","r","s","t","u","v","w","x","y","z">>

WhiteSpace == {" ", "\n", "\t", "\r"}

Min(a, b) == IF a < b THEN a ELSE b

\* String.prototype.toLowerCase
toLowerCase(s) ==
  [i \in 1..Len(s) |->
     IF \E j \in 1..Len(UpperCase) : UpperCase[j] = s[i]
     THEN LowerCase[CHOOSE j \in 1..Len(UpperCase) : UpperCase[j] = s[i]]
     ELSE s[i]]

\* String.prototype.substring(from, to), 0-based, to exclusive
substring(s, from, to) == SubSeq(s, Min(from, Len(s)) + 1, Min(to, Len(s)))

\* String.prototype.includes
includes(s, p) ==
  \E i \in 0..(Len(s) - Len(p)) : SubSeq(s, i + 1, i + Len(p)) = p

\* String.prototype.trim
trim(s) ==
  LET keep == {i \in 1..Len(s) : s[i] \notin WhiteSpace} IN
  IF keep = {} THEN <<>>
  ELSE SubSeq(s, CHOOSE i \in keep : \A j \in keep : i <= j,
                 CHOOSE i \in keep : \A j \in keep : i >= j)

\* n blanks
Blanks(n) == [i \in 1..n |-> " "]

\* ------------------------------------------------------------------------
\* RefusalDetector
\* ------------------------------------------------------------------------

refusalPatterns ==
  << <<"I"," ","c","a","n","n","o","t">>,
     <<"I"," ","c","a","n","'","t">>,
     <<"I"," ","a","m"," ","n","o","t"," ","a","b","l","e"," ","t","o">>,
     <<"I","'","m"," ","u","n","a","b","l","e"," ","t","o">>,
     <<"I"," ","a","p","o","l","o","g","i","z","e",","," ","b","u","t">>,
     <<"I","'","m"," ","s","o","r","r","y",","," ","b","u","t">>,
     <<"A","s"," ","a","n"," ","A","I"," ","l","a","n","g","u","a","g","e"," ","m","o","d","e","l">>,
     <<"I"," ","c","a","n","n","o","t"," ","a","s","s","i","s","t"," ","w","i","t","h">>,
     <<"v","i","o","l","a","t","e","s"," ","m","y"," ","s","a","f","e","t","y"," ","g","u","i","d","e","l","i","n","e","s">>,
     <<"a","g","a","i","n","s","t"," ","m","y"," ","p","r","o","g","r","a","m","m","i","n","g">>,
     <<"u","n","e","t","h","i","c","a","l">>,
     <<"i","l","l","e","g","a","l">>,
     <<"h","a","r","m","f","u","l">>,
     <<"m","a","l","i","c","i","o","u","s"," ","p","u","r","p","o","s","e","s">> >>

\* length of the prefix of a response that isRefusal scans
RefusalPrefixLength == 100

\* least trimmed length of a response that isQualityResponse accepts
MinQualityLength == 10

\* an isRefusal that scans the whole response
isRefusal_wholeText(response) ==
  \E p \in 1..Len(refusalPatterns) :
     includes(toLowerCase(response), toLowerCase(refusalPatterns[p]))

isRefusal(response) ==
  LET lowerResponse == toLowerCase(response)
      startOfResponse == substring(lowerResponse, 0, RefusalPrefixLength)
  IN \E p \in 1..Len(refusalPatterns) :
        includes(startOfResponse, toLowerCase(refusalPatterns[p]))

\* an isQualityResponse that does not trim
isQualityResponse_untrimmed(response) ==
  IF response = <<>> \/ Len(response) < MinQualityLength
  THEN FALSE
  ELSE TRUE

isQualityResponse(response) ==
  IF response = <<>> \/ Len(trim(response)) < MinQualityLength
  THEN FALSE
  ELSE TRUE

\* ------------------------------------------------------------------------
\* MODELS registry
\* ------------------------------------------------------------------------

MODELS ==
  [PRIMARY |->
     [id   |-> <<"Q","w","e","n","2",".","5","-","0",".","5","B","-","I","n","s","t","r","u","c","t">>,
      name |-> <<"Q","w","e","n"," ","2",".","5"," ","0",".","5","B"," ","I","n","s","t","r","u","c","t">>,
      isUncensored |-> FALSE],
   FALLBACK_1 |->
     [id   |-> <<"T","r","i","a","n","g","l","e","1","0","4","/","q","w","e","n","2",".","5","-",".","5","b","-","u","n","c","e","n","s","o","r","e","d","-","Q","8","_","0","-","G","G","U","F">>,
      name |-> <<"Q","w","e","n"," ","2",".","5"," ","0",".","5","B"," ","U","n","c","e","n","s","o","r","e","d"," ","(","Q","8",")">>,
      isUncensored |-> TRUE],
   FALLBACK_2 |->
     [id   |-> <<"a","f","r","i","d","e","v","a","/","l","l","a","m","a","2","_","x","s","_","4","6","0","M","_","u","n","c","e","n","s","o","r","e","d","-","G","G","U","F">>,
      name |-> <<"L","l","a","m","a","2"," ","X","S"," ","4","6","0","M"," ","U","n","c","e","n","s","o","r","e","d">>,
      isUncensored |-> TRUE]]

\* the candidate list of generateWithFallback, in fallback order
models == <<MODELS.PRIMARY, MODELS.FALLBACK_1, MODELS.FALLBACK_2>>

ModelIds == {models[k].id : k \in 1..Len(models)}

\* null (no engine, no model id, no value)
Null == <<>>

\* ------------------------------------------------------------------------
\* Inputs: what the engine substrate can answer
\* ------------------------------------------------------------------------

\* a response whose choices[0]?.message?.content is undefined
NoContent == <<"undefined">>

RefusalText ==
  <<"I","'","m"," ","s","o","r","r","y",","," ","b","u","t"," ","I"," ","w","o","n","'","t"," ","d","o"," ","t","h","a","t",".">>

ShortText == <<" "," ","D","o","n","e","."," "," ">>

GoodText ==
  <<"T","h","e"," ","p","a","r","s","e","r"," ","w","a","l","k","s"," ","e","v","e","r","y"," ","b","l","o","b",".">>

\* a refusal phrase that starts after the scanned prefix
LateRefusalText ==
  Blanks(RefusalPrefixLength) \o <<"I"," ","c","a","n","n","o","t"," ","h","e","l","p">>

Texts == {RefusalText, ShortText, GoodText, LateRefusalText}

\* outcomes of engine.chat.completions.create: it throws, or it resolves
\* with a response
Completions ==
  {[threw |-> TRUE, content |-> NoContent]}
    \cup {[threw |-> FALSE, content |-> t] : t \in Texts \cup {NoContent}}

\* the number of calls made in one run of the model
MaxCalls == 3

\* the callers that may run a call on the one ModelLoader / ModelManager
Callers == {"a", "b"}

\* ------------------------------------------------------------------------
\* State
\* ------------------------------------------------------------------------

VARIABLES
  currentEngine,   \* ModelManager.currentEngine: Null, or the id the engine was created for
  currentModelId,  \* ModelManager.currentModelId: Null or a model id
  initialized,     \* ModelLoader.initialized
  pc,              \* per caller: where its call is suspended
  op,              \* per caller: the operation it called last
  arg,             \* per caller: modelId of the initialize it is inside
  initOk,          \* per caller: whether that initialize resolved (or rejected)
  idx,             \* per caller: index in models of the candidate of the loop
  inUse,           \* per caller: the engine its completion request runs on
  log,             \* per caller: what its current call did, in order
  verdict,         \* per caller: how its latest completion request came out
  result,          \* per caller: how its last call settled
                   \* (log, verdict and result are kept for the Observed caller)
  calls,           \* the number of calls made so far
  context,         \* ReasoningOrchestrator.analyze: its argument context
  question,        \* ReasoningOrchestrator.analyze: its argument question
  orch,            \* ReasoningOrchestrator.analyze: where the call is
  openPromise,     \* the promise returned by openReasoner.analyze
  adaPromise,      \* the promise returned by adaReasoner.analyze
  joinPromise,     \* the promise returned by Promise.all
  settleOrder,     \* the analyzers in the order in which their promises settled
  combined,        \* how the analyze call settled
  text,            \* RefusalDetector: the argument of the two predicates
  detected,        \* RefusalDetector: which predicates were called, and what they returned
  repositoryData,  \* App.repositoryData: Null, or the repository that was loaded
  modelToggle,     \* #model-toggle: its checked property
  chatInput,       \* App.chatInput: the value and the disabled property of the textarea
  sendButton,      \* App.sendButton: its disabled property
  quickActions,    \* #quick-actions: whether the quick-action buttons are displayed
  loader,          \* #loader-container: whether it is displayed
  reasoningUI,     \* the reasoning panel: 0 (its placeholder), or the request whose result it shows
  chatMessages,    \* App.chatMessages: the messages of the chat, oldest first
  requests,        \* the sendMessage calls that passed their guards, oldest first
  timers,          \* the number of pending auto-send timers of the quick-action buttons
  processing       \* the number of processFiles calls that have not returned

\* the state of the generation layer (ModelLoader, ModelManager, callers)
generationVars == <<currentEngine, currentModelId, initialized,
                    pc, op, arg, initOk, idx, inUse, log, verdict, result, calls>>

\* the state of a ReasoningOrchestrator.analyze call
reasoningVars ==
  <<context, question, orch, openPromise, adaPromise, joinPromise, settleOrder, combined>>

\* the state of a use of the RefusalDetector on its own
detectorVars == <<text, detected>>

\* the state of the App: its fields and the elements of the page that sendMessage
\* and the listeners read and write (the status line, which is only written, is left out)
appVars == <<repositoryData, modelToggle, chatInput, sendButton, quickActions, loader,
             reasoningUI, chatMessages, requests, timers, processing>>

vars == <<generationVars, reasoningVars, detectorVars, appVars>>

managerVars == <<currentEngine, currentModelId>>

NoResponse == [content |-> Null, modelUsed |-> Null, isRefusal |-> FALSE]

NoResult == [status |-> "none", error |-> "", response |-> NoResponse, text |-> Null]

Resolved == [status |-> "ok", error |-> "", response |-> NoResponse, text |-> Null]

Rejected(e) == [status |-> "error", error |-> e, response |-> NoResponse, text |-> Null]

\* the error messages
AllFailed == "All models failed or refused to answer."

NotInitialized == "Model not initialized. Call initialize() first."

LoadError == "CreateMLCEngine failed"

Event(ev, k, e) == [ev |-> ev, cand |-> k, engine |-> e]

\* a promise that does not exist yet, is pending, fulfilled or rejected
NoPromise == [state |-> "none", value |-> Null]

Pending == [state |-> "pending", value |-> Null]

Fulfilled(v) == [state |-> "fulfilled", value |-> v]

RejectedWith(e) == [state |-> "rejected", value |-> e]

\* how a call of ReasoningOrchestrator.analyze settled: not yet, with a
\* CombinedReasoning, or with an error
NotSettled == [status |-> "none", value |-> Null]

\* no context (no analyze call was made)
NoContext == [files |-> <<>>, structure |-> Null, totalFiles |-> 0]

\* no verdict of the RefusalDetector
NoVerdicts == [called |-> {}, isRefusal |-> FALSE, isQualityResponse |-> FALSE]

\* nothing is going on in the reasoning layer
ReasoningIdle ==
  /\ context = NoContext
  /\ question = Null
  /\ orch = "idle"
  /\ openPromise = NoPromise
  /\ adaPromise = NoPromise
  /\ joinPromise = NoPromise
  /\ settleOrder = <<>>
  /\ combined = NotSettled

\* nothing is going on in the generation layer
GenerationIdle ==
  /\ currentEngine = Null
  /\ currentModelId = Null
  /\ initialized = FALSE
  /\ pc = [c \in Callers |-> "idle"]
  /\ op = [c \in Callers |-> "none"]
  /\ arg = [c \in Callers |-> Null]
  /\ initOk = [c \in Callers |-> FALSE]
  /\ idx = [c \in Callers |-> 0]
  /\ inUse = [c \in Callers |-> Null]
  /\ log = [c \in Callers |-> <<>>]
  /\ verdict = [c \in Callers |-> "none"]
  /\ result = [c \in Callers |-> NoResult]
  /\ calls = 0

\* ------------------------------------------------------------------------
\* App: the page, its event listeners, processFiles and sendMessage
\* ------------------------------------------------------------------------

\* at most this many sendMessage calls pass their guards
MaxRequests == 2

\* the repository that processFiles stores in App.repositoryData
Loaded == <<"files", "commits", "structure", "totalFiles", "totalSize">>

Message(role, content, isLoading) ==
  [role |-> role, content |-> content, loading |-> isLoading]

\* the greeting that render() puts in #chat-messages
Greeting ==
  Message("assistant", <<"H","e","l","l","o","!"," ","U","p","l","o","a","d"," ","a"," ","G","i","t"," ","r","e","p","o","s","i","t","o","r","y"," ","t","o"," ","g","e","t"," ","s","t","a","r","t","e","d",".">>, FALSE)

EnableNotice ==
  <<"P","l","e","a","s","e"," ","e","n","a","b","l","e"," ","t","h","e"," ","m","o","d","e","l"," ","u","s","i","n","g"," ","t","h","e"," ","t","o","r","c","h"," ","s","w","i","t","c","h"," ","a","b","o","v","e"," ","t","o"," ","u","s","e"," ","A","I"," ","a","n","a","l","y","s","i","s",".">>

AnalyzingText == <<"A","n","a","l","y","z","i","n","g"," ","r","e","p","o","s","i","t","o","r","y",".",".",".">>

\* the data-question attribute of a quick-action button
QuickQuestions ==
  { <<"F","i","n","d"," ","a","l","l"," ","h","a","r","d","c","o","d","e","d"," ","s","e","c","r","e","t","s",","," ","A","P","I"," ","k","e","y","s",","," ","p","a","s","s","w","o","r","d","s",","," ","o","r"," ","s","e","n","s","i","t","i","v","e"," ","d","a","t","a",".">> }

\* the question of the quick-action button
QuickQuestion == CHOOSE q \in QuickQuestions : TRUE

\* what the user types into the chat input: blanks only, or that question
\* between blanks
TypedValues == { <<" "," ">>, <<" ">> \o QuickQuestion \o <<" ">> }

\* the answers of modelLoader.analyzeRepository
Answers == { <<"N","o"," ","v","u","l","n","e","r","a","b","i","l","i","t","i","e","s"," ","w","e","r","e"," ","f","o","u","n","d"," ","i","n"," ","t","h","e"," ","r","e","p","o","s","i","t","o","r","y",".">> }

\* the values that the two awaited calls of sendMessage reject with: Error
\* objects with a message, or a value that is not an Error
Thrown(isError, message) == [isError |-> isError, message |-> message]

ReasoningErrors ==
  { Thrown(TRUE, <<"C","a","n","n","o","t"," ","r","e","a","d"," ","p","r","o","p","e","r","t","i","e","s"," ","o","f"," ","u","n","d","e","f","i","n","e","d"," ","(","r","e","a","d","i","n","g"," ","'","s","p","l","i","t","'",")">>) }

GenerationErrors ==
  { Thrown(FALSE, <<"o","u","t"," ","o","f"," ","m","e","m","o","r","y">>) }

\* the text that the catch block of sendMessage shows for a thrown value
errorText(error) ==
  <<"E","r","r","o","r",":"," ">> \o (IF error.isError THEN error.message
                 ELSE <<"F","a","i","l","e","d"," ","t","o"," ","g","e","n","e","r","a","t","e"," ","r","e","s","p","o","n","s","e">>)

\* addMessage appends a message; its id is unique to it, and here it is the
\* position of the message in the chat
addMessage(messages, role, content, isLoading) ==
  Append(messages, Message(role, content, isLoading))

messageIdOf(messages) == Len(messages)

\* updateMessage that does not find the message
updateMessage_notFound(messages, messageId, content) == messages

\* updateMessage replaces the content of the message with that id (the
\* loading mark is part of the content it replaces)
updateMessage(messages, messageId, content) ==
  IF messageId \in DOMAIN messages
  THEN [messages EXCEPT ![messageId] = Message(@.role, content, FALSE)]
  ELSE messages

\* the state of the App after its construction
AppIdle ==
  /\ repositoryData = Null
  /\ modelToggle = TRUE
  /\ chatInput = [value |-> <<>>, disabled |-> TRUE]
  /\ sendButton = [disabled |-> TRUE]
  /\ quickActions = FALSE
  /\ loader = FALSE
  /\ reasoningUI = 0
  /\ chatMessages = <<Greeting>>
  /\ requests = <<>>
  /\ timers = 0
  /\ processing = 0

\* the RefusalDetector is not used on its own
DetectorIdle ==
  /\ text = Null
  /\ detected = NoVerdicts

Init ==
  /\ currentEngine = Null
  /\ currentModelId = Null
  /\ initialized = FALSE
  /\ pc = [c \in Callers |-> "idle"]
  /\ op = [c \in Callers |-> "none"]
  /\ arg = [c \in Callers |-> Null]
  /\ initOk = [c \in Callers |-> FALSE]
  /\ idx = [c \in Callers |-> 0]
  /\ inUse = [c \in Callers |-> Null]
  /\ log = [c \in Callers |-> <<>>]
  /\ verdict = [c \in Callers |-> "none"]
  /\ result = [c \in Callers |-> NoResult]
  /\ calls = 0
  /\ ReasoningIdle
  /\ DetectorIdle
  /\ AppIdle

\* ------------------------------------------------------------------------
\* ModelManager
\* ------------------------------------------------------------------------

\* an initialize without the early return
initializeEntry_reloading(modelId, eng, mid) ==
  [returned |-> FALSE, engine |-> IF eng # Null THEN Null ELSE eng]

\* initialize(modelId) up to its await: the early return when the model is
\* already loaded, else the engine is dropped and CreateMLCEngine is called
initializeEntry(modelId, eng, mid) ==
  IF eng # Null /\ mid = modelId
  THEN [returned |-> TRUE, engine |-> eng]
  ELSE [returned |-> FALSE, engine |-> IF eng # Null THEN Null ELSE eng]

\* a loop that starts at the active backend
firstCandidate_active(eng, mid) ==
  IF eng # Null /\ \E k \in 1..Len(models) : models[k].id = mid
  THEN CHOOSE k \in 1..Len(models) : models[k].id = mid
  ELSE 1

\* the candidate that the for loop takes first, on manager state (eng, mid)
firstCandidate(eng, mid) == 1

\* a loop that passes over a candidate
nextCandidate_skipping(k) == k + 2

\* the candidate that the for loop takes after candidate k
nextCandidate(k) == k + 1

\* a loop that calls initialize for every candidate
needsInitialize_always(k, mid) == TRUE


\* whether the loop calls initialize for candidate k (the lazy loading)
needsInitialize(k, mid) == mid # models[k].id

\* the engine that the completion request of candidate k is sent to
requestEngine(k, eng) == eng

\* a ModelResponse that names the primary model, whichever answered
acceptedResponse_primary(k, content) ==
  [content |-> content, modelUsed |-> models[1].name, isRefusal |-> FALSE]

\* the ModelResponse of an accepted candidate
acceptedResponse(k, content) ==
  [content |-> content, modelUsed |-> models[k].name, isRefusal |-> FALSE]

\* response.choices[0]?.message?.content || ""
contentOf(completion) ==
  IF completion.content = NoContent THEN <<>> ELSE completion.content

\* the refusal gate alone
gate_refusalOnly(content) ==
  IF isRefusal(content) THEN "refused" ELSE "accepted"

\* the two gates on the content of a completion
gate(content) ==
  IF isRefusal(content) THEN "refused"
  ELSE IF ~isQualityResponse(content) THEN "low_quality"
  ELSE "accepted"

\* gate, tabulated over the completions that resolve
gateOf == [r \in Completions |-> gate(contentOf(r))]

\* the final throw of generateWithFallback
allFailed(k, eng, lg) ==
  [pc |-> "idle", idx |-> k, arg |-> Null, inUse |-> Null, engine |-> eng,
   log |-> lg, verdict |-> "none", result |-> Rejected(AllFailed)]

RECURSIVE fallbackLoop(_, _, _, _)
RECURSIVE afterInitialize(_, _, _, _)

\* the for loop of generateWithFallback from candidate k, run up to its next
\* await or to its final throw, on manager state (eng, mid), with log lg
fallbackLoop(k, eng, mid, lg) ==
  IF k > Len(models)
  THEN allFailed(k, eng, lg)
  ELSE IF needsInitialize(k, mid)
  THEN LET e == initializeEntry(models[k].id, eng, mid) IN
       [pc |-> IF e.returned THEN "init_returned" ELSE "creating",
        idx |-> k, arg |-> models[k].id, inUse |-> Null, engine |-> e.engine,
        log |-> IF e.returned THEN lg
                ELSE Append(lg, Event("create", k, models[k].id)),
        verdict |-> "none", result |-> NoResult]
  ELSE afterInitialize(k, eng, mid, lg)

\* the body of the loop after the lazy initialization of candidate k: the
\* engine check and the completion request
afterInitialize(k, eng, mid, lg) ==
  IF eng = Null
  THEN fallbackLoop(nextCandidate(k), eng, mid, Append(lg, Event("no_engine", k, Null)))
  ELSE [pc |-> "generating", idx |-> k, arg |-> Null,
        inUse |-> requestEngine(k, eng), engine |-> eng,
        log |-> Append(lg, Event("generate", k, requestEngine(k, eng))),
        verdict |-> "none", result |-> NoResult]

\* a catch block that rethrows
caught_rethrowing(k, eng, mid, lg) ==
  [pc |-> "idle", idx |-> k, arg |-> Null, inUse |-> Null, engine |-> eng,
   log |-> lg, verdict |-> "none", result |-> Rejected(LoadError)]

\* a catch block that gives up at the first error
caught_exhausting(k, eng, mid, lg) == allFailed(k, eng, lg)


\* a catch block that tries the same candidate again
caught_retrying(k, eng, mid, lg) == fallbackLoop(k, eng, mid, lg)


\* the catch block of the loop, for an error of candidate k: log and continue
caught(k, eng, mid, lg) == fallbackLoop(nextCandidate(k), eng, mid, lg)

\* ------------------------------------------------------------------------
\* ModelLoader
\* ------------------------------------------------------------------------

AttributionPrefix ==
  <<"\n","\n","*","(","A","n","a","l","y","s","i","s"," ","p","e","r","f","o","r","m","e","d"," ","b","y"," ">>

AttributionSuffix == <<")","*">>

\* what analyzeRepository returns for the response of generate
attributed(response) ==
  response.content \o AttributionPrefix \o response.modelUsed \o AttributionSuffix

\* a generate without its guard
generateAllowed_always(init) == TRUE

\* the guard of ModelLoader.generate
generateAllowed(init) == init

\* a loader that counts itself initialized whether the manager loaded or not
loaderInitialized_always(ok, was) == TRUE

\* ModelLoader.initialized when the await of ModelManager.initialize
\* resumes: set when it resolved, left alone when it rejected
loaderInitialized(ok, was) == IF ok THEN TRUE ELSE was


\* how a call of operation o settles when generateWithFallback resolves
accepted(o, response) ==
  [status |-> "ok", error |-> "", response |-> response,
   text |-> IF o = "analyzeRepository" THEN attributed(response) ELSE Null]

\* ------------------------------------------------------------------------
\* Steps of a caller
\* ------------------------------------------------------------------------

\* the caller whose calls the properties follow. The callers run the same
\* code, so what holds of the calls of one holds of the calls of any; the
\* other callers are there to interleave with it, and what their calls did
\* and returned is not recorded.
Observed == "a"

\* the record x of caller c's call
recorded(c, x, blank) == IF c = Observed THEN x ELSE blank

\* caller c takes a step that leaves its call in frame f
step(c, f) ==
  /\ pc' = [pc EXCEPT ![c] = f.pc]
  /\ idx' = [idx EXCEPT ![c] = f.idx]
  /\ arg' = [arg EXCEPT ![c] = f.arg]
  /\ inUse' = [inUse EXCEPT ![c] = f.inUse]
  /\ log' = [log EXCEPT ![c] = recorded(c, f.log, <<>>)]
  /\ verdict' = [verdict EXCEPT ![c] = recorded(c, f.verdict, "none")]
  /\ result' = [result EXCEPT ![c] = recorded(c, f.result, NoResult)]
  /\ currentEngine' = f.engine

\* caller c makes a call
begin(c) ==
  /\ pc[c] = "idle"
  /\ calls < MaxCalls
  /\ calls' = calls + 1

\* the frame of a call that has settled with res
settled(k, a, lg, res) ==
  [pc |-> "idle", idx |-> k, arg |-> a, inUse |-> Null, engine |-> currentEngine,
   log |-> lg, verdict |-> "none", result |-> res]

\* the frame of a call that is inside initialize(modelId), entered as e
initializing(e, modelId) ==
  [pc |-> IF e.returned THEN "init_returned" ELSE "creating",
   idx |-> 0, arg |-> modelId, inUse |-> Null, engine |-> e.engine,
   log |-> IF e.returned THEN <<>> ELSE <<Event("create", 0, modelId)>>,
   verdict |-> "none", result |-> NoResult]

\* ------------------------------------------------------------------------
\* Actions: the calls
\* ------------------------------------------------------------------------

\* ModelManager.initialize(modelId), called directly, up to its await
initialize(c, modelId) ==
  /\ begin(c)
  /\ op' = [op EXCEPT ![c] = "initialize"]
  /\ LET e == initializeEntry(modelId, currentEngine, currentModelId) IN
       IF e.returned
       THEN step(c, settled(0, Null, <<>>, Resolved))
       ELSE step(c, initializing(e, modelId))
  /\ UNCHANGED <<currentModelId, initialized, initOk>>
  /\ UNCHANGED <<reasoningVars, detectorVars, appVars>>

\* ModelManager.generateWithFallback, called directly, up to its first await
generateWithFallback(c) ==
  /\ begin(c)
  /\ op' = [op EXCEPT ![c] = "generateWithFallback"]
  /\ step(c, fallbackLoop(firstCandidate(currentEngine, currentModelId),
                             currentEngine, currentModelId, <<>>))
  /\ UNCHANGED <<currentModelId, initialized, initOk>>
  /\ UNCHANGED <<reasoningVars, detectorVars, appVars>>

\* ModelLoader.initialize up to its await
loaderInitialize(c) ==
  /\ begin(c)
  /\ op' = [op EXCEPT ![c] = "loaderInitialize"]
  /\ IF initialized
     THEN /\ step(c, settled(0, Null, <<>>, Resolved))
          /\ UNCHANGED initOk
     ELSE LET e == initializeEntry(MODELS.PRIMARY.id, currentEngine, currentModelId) IN
          /\ step(c, initializing(e, MODELS.PRIMARY.id))
          /\ initOk' = [initOk EXCEPT ![c] = e.returned]
  /\ UNCHANGED <<currentModelId, initialized>>
  /\ UNCHANGED <<reasoningVars, detectorVars, appVars>>

\* ModelLoader.analyzeRepository: it calls ModelLoader.generate, which throws
\* when the loader is not initialized and calls generateWithFallback otherwise
analyzeRepository(c) ==
  /\ begin(c)
  /\ op' = [op EXCEPT ![c] = "analyzeRepository"]
  /\ IF ~generateAllowed(initialized)
     THEN step(c, settled(0, Null, <<>>, Rejected(NotInitialized)))
     ELSE step(c, fallbackLoop(firstCandidate(currentEngine, currentModelId),
                             currentEngine, currentModelId, <<>>))
  /\ UNCHANGED <<currentModelId, initialized, initOk>>
  /\ UNCHANGED <<reasoningVars, detectorVars, appVars>>

\* ModelLoader.dispose
dispose(c) ==
  /\ begin(c)
  /\ op' = [op EXCEPT ![c] = "dispose"]
  /\ initialized' = FALSE
  /\ step(c, settled(0, Null, <<>>, Resolved))
  /\ UNCHANGED <<currentModelId, initOk>>
  /\ UNCHANGED <<reasoningVars, detectorVars, appVars>>

\* ------------------------------------------------------------------------
\* Actions: the continuations
\* ------------------------------------------------------------------------

\* CreateMLCEngine resolves: the rest of initialize runs and initialize returns
createResolves(c) ==
  /\ pc[c] = "creating"
  /\ currentEngine' = arg[c]
  /\ currentModelId' = arg[c]
  /\ pc' = [pc EXCEPT ![c] = "init_returned"]
  /\ initOk' = [initOk EXCEPT ![c] = TRUE]
  /\ log' = [log EXCEPT ![c] = recorded(c, Append(@, Event("created", idx[c], arg[c])), <<>>)]
  /\ UNCHANGED <<initialized, op, arg, idx, inUse, verdict, result, calls>>
  /\ UNCHANGED <<reasoningVars, detectorVars, appVars>>

\* CreateMLCEngine rejects: initialize logs the error and rethrows it
createRejects(c) ==
  /\ pc[c] = "creating"
  /\ pc' = [pc EXCEPT ![c] = "init_returned"]
  /\ initOk' = [initOk EXCEPT ![c] = FALSE]
  /\ log' = [log EXCEPT ![c] = recorded(c, Append(@, Event("create_failed", idx[c], arg[c])), <<>>)]
  /\ UNCHANGED <<managerVars, initialized, op, arg, idx, inUse, verdict, result, calls>>
  /\ UNCHANGED <<reasoningVars, detectorVars, appVars>>

\* the code that awaited initialize resumes
initializeReturns(c) ==
  /\ pc[c] = "init_returned"
  /\ CASE op[c] = "initialize" ->
            /\ step(c, settled(0, Null, log[c],
                               IF initOk[c] THEN Resolved ELSE Rejected(LoadError)))
            /\ UNCHANGED initialized
       [] op[c] = "loaderInitialize" ->
            /\ step(c, settled(0, Null, log[c],
                               IF initOk[c] THEN Resolved ELSE Rejected(LoadError)))
            /\ initialized' = loaderInitialized(initOk[c], initialized)
       [] OTHER ->
            /\ IF initOk[c]
               THEN step(c, afterInitialize(idx[c], currentEngine, currentModelId, log[c]))
               ELSE step(c, caught(idx[c], currentEngine, currentModelId, log[c]))
            /\ UNCHANGED initialized
  /\ initOk' = [initOk EXCEPT ![c] = FALSE]
  /\ UNCHANGED <<currentModelId, op, calls>>
  /\ UNCHANGED <<reasoningVars, detectorVars, appVars>>

\* engine.chat.completions.create settles with r: on a throw the catch block
\* runs; else the gates run, and the loop returns the response or continues
completionSettles(c, r) ==
  /\ pc[c] = "generating"
  /\ LET v == IF r.threw THEN "threw" ELSE gateOf[r]
         lg == Append(log[c], Event(IF v = "accepted" THEN "accepted" ELSE "failed",
                                    idx[c], inUse[c]))
     IN IF v = "accepted"
        THEN step(c, [settled(idx[c], Null, lg,
                              accepted(op[c], acceptedResponse(idx[c], contentOf(r))))
                        EXCEPT !.verdict = v])
        ELSE IF v = "threw"
        THEN step(c, [caught(idx[c], currentEngine, currentModelId, lg)
                        EXCEPT !.verdict = v])
        ELSE step(c, [fallbackLoop(nextCandidate(idx[c]), currentEngine, currentModelId, lg)
                        EXCEPT !.verdict = v])
  /\ UNCHANGED <<currentModelId, initialized, op, initOk, calls>>
  /\ UNCHANGED <<reasoningVars, detectorVars, appVars>>

Next ==
  \/ \E c \in Callers, m \in ModelIds : initialize(c, m)
  \/ \E c \in Callers : generateWithFallback(c)
  \/ \E c \in Callers : loaderInitialize(c)
  \/ \E c \in Callers : analyzeRepository(c)
  \/ \E c \in Callers : dispose(c)
  \/ \E c \in Callers : createResolves(c)
  \/ \E c \in Callers : createRejects(c)
  \/ \E c \in Callers : initializeReturns(c)
  \/ \E c \in Callers, r \in Completions : completionSettles(c, r)

Spec == Init /\ [][Next]_vars

\* no call is in progress
Quiet == \A c \in Callers : pc[c] = "idle"

\* the same program when its callers await each call before the next one
NextSeq ==
  \/ \E c \in Callers, m \in ModelIds : Quiet /\ initialize(c, m)
  \/ \E c \in Callers : Quiet /\ generateWithFallback(c)
  \/ \E c \in Callers : Quiet /\ loaderInitialize(c)
  \/ \E c \in Callers : Quiet /\ analyzeRepository(c)
  \/ \E c \in Callers : Quiet /\ dispose(c)
  \/ \E c \in Callers : createResolves(c)
  \/ \E c \in Callers : createRejects(c)
  \/ \E c \in Callers : initializeReturns(c)
  \/ \E c \in Callers, r \in Completions : completionSettles(c, r)

SpecSeq == Init /\ [][NextSeq]_vars

\* ------------------------------------------------------------------------
\* Strings and arrays of the reasoning layer
\* ------------------------------------------------------------------------

\* the value undefined
Undefined == <<"undefined">>

Digits == <<"0","1","2","3","4","5","6","7","8","9">>

RECURSIVE toString(_)
\* String(n) for a natural number n
toString(n) ==
  IF n < 10 THEN <<Digits[n + 1]>>
  ELSE toString(n \div 10) \o <<Digits[(n % 10) + 1]>>

\* String(h / 2) for a natural number h
halfToString(h) ==
  IF h % 2 = 0 THEN toString(h \div 2)
  ELSE toString(h \div 2) \o <<".","5">>

\* the k-th smallest number of a set of numbers
nth(S, k) == CHOOSE i \in S : Cardinality({j \in S : j < i}) = k - 1

\* String.prototype.split(sep), sep of one character: the pieces between
\* one occurrence of sep and the next
split(s, sep) ==
  LET at == {i \in DOMAIN s : s[i] = sep}
      from(k) == IF k = 1 THEN 1 ELSE nth(at, k - 1) + 1
      to(k) == IF k = Cardinality(at) + 1 THEN Len(s) ELSE nth(at, k) - 1
  IN [k \in 1..(Cardinality(at) + 1) |-> SubSeq(s, from(k), to(k))]

\* Array.prototype.pop() || orElse, on an array of strings
popOr(a, orElse) ==
  IF a = <<>> \/ a[Len(a)] = <<>> THEN orElse ELSE a[Len(a)]

RECURSIVE join(_, _)
\* Array.prototype.join(sep)
join(a, sep) ==
  IF a = <<>> THEN <<>>
  ELSE IF Len(a) = 1 THEN a[1]
  ELSE LET half == Len(a) \div 2
       IN join(SubSeq(a, 1, half), sep) \o sep \o join(SubSeq(a, half + 1, Len(a)), sep)

CommaSpace == <<",", " ">>

\* [...new Set(a)]: a without its repetitions, in order of first occurrence
newSet(a) ==
  LET firsts == {i \in DOMAIN a : \A j \in 1..(i - 1) : a[j] # a[i]}
  IN [k \in 1..Cardinality(firsts) |-> a[nth(firsts, k)]]

\* Array.prototype.includes
arrayIncludes(a, x) == \E i \in DOMAIN a : a[i] = x

\* (l.match(/^  */)?.[0]?.length || 0): the length of the run of blanks that
\* line l starts with
leadingBlanks(l) ==
  IF l = <<>> \/ l[1] # " " THEN 0
  ELSE IF \A i \in DOMAIN l : l[i] = " " THEN Len(l)
  ELSE (CHOOSE i \in DOMAIN l : l[i] # " " /\ \A j \in 1..(i - 1) : l[j] = " ") - 1

\* Math.max over a set of numbers that is not empty
Max(S) == CHOOSE x \in S : \A y \in S : y <= x

\* ------------------------------------------------------------------------
\* OpenReasoner
\* ------------------------------------------------------------------------

\* a confidence c is held as the integer 1000 * c
Thousandths == 1000

keyFiles ==
  << <<"R","E","A","D","M","E",".","m","d">>, <<"p","a","c","k","a","g","e",".","j","s","o","n">>, <<"r","e","q","u","i","r","e","m","e","n","t","s",".","t","x","t">>, <<"D","o","c","k","e","r","f","i","l","e">>,
     <<"d","o","c","k","e","r","-","c","o","m","p","o","s","e",".","y","m","l">>, <<"m","a","i","n",".","p","y">>, <<"i","n","d","e","x",".","j","s">>, <<"A","p","p",".","t","s">> >>

\* whether OpenReasoner.analyze throws a TypeError: it calls split on
\* context.structure and on every path, toLowerCase on the content of every
\* entry of type file and on the question
openThrows(ctx, q) ==
  \/ ctx.structure = Undefined
  \/ \E i \in DOMAIN ctx.files : ctx.files[i].path = Undefined
  \/ \E i \in DOMAIN ctx.files :
       ctx.files[i].type = "file" /\ ctx.files[i].content = Undefined
  \/ q = Undefined

\* twice the depth that OpenReasoner computes from the structure
depth2(structure) ==
  LET structureLines == split(structure, "\n")
  IN Max({leadingBlanks(structureLines[i]) : i \in DOMAIN structureLines})

\* key files counted once per name
foundKeyFiles_distinct(files) ==
  LET names == [i \in DOMAIN files |-> popOr(split(files[i].path, "/"), <<>>)]
      isKey(f) == arrayIncludes(keyFiles, f)
  IN newSet(SelectSeq(names, isKey))


\* the basenames of the files that are key files, in the order of the files
foundKeyFiles(files) ==
  LET names == [i \in DOMAIN files |-> popOr(split(files[i].path, "/"), <<>>)]
      isKey(f) == arrayIncludes(keyFiles, f)
  IN SelectSeq(names, isKey)

\* whether the content of a file holds one of the words, in lower case
contentHas(file, words) ==
  /\ file.type = "file"
  /\ \E w \in words : includes(toLowerCase(file.content), w)

SecurityKeywords == {<<"p","a","s","s","w","o","r","d">>, <<"s","e","c","r","e","t">>, <<"a","p","i","_","k","e","y">>, <<"t","o","k","e","n">>}

TodoKeywords == {<<"t","o","d","o">>, <<"f","i","x","m","e">>}

\* a scan that counts the keywords found and not the files
securityKeywordsFound_perKeyword(files) ==
  Cardinality({<<i, w>> \in (DOMAIN files) \X SecurityKeywords : contentHas(files[i], {w})})


securityKeywordsFound(files) ==
  Cardinality({i \in DOMAIN files : contentHas(files[i], SecurityKeywords)})

todoFound(files) ==
  Cardinality({i \in DOMAIN files : contentHas(files[i], TodoKeywords)})

\* an intent analysis that looks for the keyword groups in the reverse order
intentOf_bugFirst(q) ==
  LET qLower == toLowerCase(q) IN
  IF includes(qLower, <<"b","u","g">>) \/ includes(qLower, <<"f","i","x">>) \/ includes(qLower, <<"e","r","r","o","r">>)
  THEN "bug"
  ELSE IF includes(qLower, <<"a","r","c","h","i","t","e","c","t","u","r","e">>) \/ includes(qLower, <<"d","e","s","i","g","n">>)
            \/ includes(qLower, <<"s","t","r","u","c","t","u","r","e">>)
  THEN "architecture"
  ELSE IF includes(qLower, <<"s","e","c","u","r","i","t","y">>) \/ includes(qLower, <<"v","u","l","n","e","r","a","b","i","l","i","t","y">>)
            \/ includes(qLower, <<"e","x","p","l","o","i","t">>)
  THEN "security"
  ELSE "none"


\* the intent of the question: the first group of keywords that it holds
intentOf(q) ==
  LET qLower == toLowerCase(q) IN
  IF includes(qLower, <<"s","e","c","u","r","i","t","y">>) \/ includes(qLower, <<"v","u","l","n","e","r","a","b","i","l","i","t","y">>)
       \/ includes(qLower, <<"e","x","p","l","o","i","t">>)
  THEN "security"
  ELSE IF includes(qLower, <<"a","r","c","h","i","t","e","c","t","u","r","e">>) \/ includes(qLower, <<"d","e","s","i","g","n">>)
            \/ includes(qLower, <<"s","t","r","u","c","t","u","r","e">>)
  THEN "architecture"
  ELSE IF includes(qLower, <<"b","u","g">>) \/ includes(qLower, <<"f","i","x">>)
            \/ includes(qLower, <<"e","r","r","o","r">>)
  THEN "bug"
  ELSE "none"

intentFocusAreas(intent) ==
  CASE intent = "security" ->
         << <<"V","u","l","n","e","r","a","b","i","l","i","t","y"," ","A","s","s","e","s","s","m","e","n","t">>, <<"E","x","p","l","o","i","t"," ","A","n","a","l","y","s","i","s">>, <<"D","e","p","e","n","d","e","n","c","y"," ","C","h","e","c","k">> >>
    [] intent = "architecture" ->
         << <<"S","y","s","t","e","m"," ","D","e","s","i","g","n">>, <<"D","a","t","a"," ","F","l","o","w">>, <<"C","o","m","p","o","n","e","n","t"," ","I","n","t","e","r","a","c","t","i","o","n">> >>
    [] intent = "bug" ->
         << <<"E","r","r","o","r"," ","H","a","n","d","l","i","n","g">>, <<"L","o","g","i","c"," ","F","l","a","w","s">>, <<"D","e","b","u","g","g","i","n","g">> >>
    [] OTHER -> <<>>

intentInsights(intent) ==
  CASE intent = "security" ->
         << <<"U","s","e","r"," ","i","n","t","e","n","t"," ","i","s"," ","f","o","c","u","s","e","d"," ","o","n"," ","S","E","C","U","R","I","T","Y","."," ","P","r","i","o","r","i","t","i","z","i","n","g"," ","v","u","l","n","e","r","a","b","i","l","i","t","y"," ","s","c","a","n","n","i","n","g",".">> >>
    [] intent = "architecture" ->
         << <<"U","s","e","r"," ","i","n","t","e","n","t"," ","i","s"," ","f","o","c","u","s","e","d"," ","o","n"," ","A","R","C","H","I","T","E","C","T","U","R","E","."," ","P","r","i","o","r","i","t","i","z","i","n","g"," ","s","t","r","u","c","t","u","r","a","l"," ","a","n","a","l","y","s","i","s",".">> >>
    [] intent = "bug" ->
         << <<"U","s","e","r"," ","i","n","t","e","n","t"," ","i","s"," ","f","o","c","u","s","e","d"," ","o","n"," ","B","U","G"," ","F","I","X","I","N","G","."," ","P","r","i","o","r","i","t","i","z","i","n","g"," ","l","o","g","i","c"," ","a","n","a","l","y","s","i","s",".">> >>
    [] OTHER -> <<>>

\* the ReasoningResult of OpenReasoner.analyze when it does not throw
openAnalyze(ctx, q) ==
  LET found == foundKeyFiles(ctx.files)
      nSecurity == securityKeywordsFound(ctx.files)
      nTodo == todoFound(ctx.files)
      intent == intentOf(q)
      insights ==
        << <<"R","e","p","o","s","i","t","o","r","y"," ","s","t","r","u","c","t","u","r","e"," ","h","a","s"," ","a"," ","m","a","x","i","m","u","m"," ","d","e","p","t","h"," ","o","f"," ">>
             \o halfToString(depth2(ctx.structure)) \o <<".">> >>
        \o (IF Len(found) > 0
            THEN << <<"I","d","e","n","t","i","f","i","e","d"," ","k","e","y"," ","c","o","n","f","i","g","u","r","a","t","i","o","n","/","e","n","t","r","y"," ","f","i","l","e","s",":"," ">>
                      \o join(found, CommaSpace) \o <<".">> >>
            ELSE <<>>)
        \o (IF nSecurity > 0
            THEN << <<"F","o","u","n","d"," ">> \o toString(nSecurity)
                      \o <<" ","p","o","t","e","n","t","i","a","l"," ","s","e","c","u","r","i","t","y","-","s","e","n","s","i","t","i","v","e"," ","k","e","y","w","o","r","d","s"," ","(","p","a","s","s","w","o","r","d",","," ","s","e","c","r","e","t",","," ","t","o","k","e","n",")",".">> >>
            ELSE <<>>)
        \o (IF nTodo > 0
            THEN << <<"F","o","u","n","d"," ">> \o toString(nTodo)
                      \o <<" ","T","O","D","O","/","F","I","X","M","E"," ","c","o","m","m","e","n","t","s",","," ","i","n","d","i","c","a","t","i","n","g"," ","t","e","c","h","n","i","c","a","l"," ","d","e","b","t",".">> >>
            ELSE <<>>)
        \o intentInsights(intent)
      focusAreas ==
        (IF nSecurity > 0
         THEN << <<"H","a","r","d","c","o","d","e","d"," ","S","e","c","r","e","t","s">>, <<"C","o","n","f","i","g","u","r","a","t","i","o","n"," ","F","i","l","e","s">> >> ELSE <<>>)
        \o (IF nTodo > 0
            THEN << <<"C","o","d","e"," ","Q","u","a","l","i","t","y">>, <<"T","e","c","h","n","i","c","a","l"," ","D","e","b","t">> >> ELSE <<>>)
        \o intentFocusAreas(intent)
  IN [source |-> "OpenReason",
      insights |-> insights,
      confidence |-> 850 + Len(found) * 20,
      focusAreas |-> newSet(focusAreas),
      suggestedPrompts |->
        << <<"D","e","t","a","i","l","e","d"," ","s","e","c","u","r","i","t","y"," ","a","u","d","i","t"," ","o","f"," ">>
             \o (IF Len(found) > 0 /\ found[1] # <<>> THEN found[1] ELSE <<"c","o","d","e","b","a","s","e">>),
           <<"E","x","p","l","a","i","n"," ","t","h","e"," ","a","r","c","h","i","t","e","c","t","u","r","a","l"," ","p","a","t","t","e","r","n","s"," ","u","s","e","d">>,
           <<"L","i","s","t"," ","a","l","l"," ","f","o","u","n","d"," ","T","O","D","O","s"," ","a","n","d"," ","t","h","e","i","r"," ","i","m","p","l","i","c","a","t","i","o","n","s">> >>]

\* ------------------------------------------------------------------------
\* AdaReasoner
\* ------------------------------------------------------------------------

\* whether AdaReasoner.analyze throws a TypeError: it calls split on every
\* path and toLowerCase on the question
adaThrows(ctx, q) ==
  \/ \E i \in DOMAIN ctx.files : ctx.files[i].path = Undefined
  \/ q = Undefined

\* f.path.split('.').pop() || 'unknown'
extensionOf(path) == popOr(split(path, "."), <<"u","n","k","n","o","w","n">>)

\* the digit that a character is
digitOf(ch) == (CHOOSE d \in DOMAIN Digits : Digits[d] = ch) - 1

\* whether the number that s denotes is less than the one that t denotes,
\* for strings of digits without leading zeros
numberLess(s, t) ==
  \/ Len(s) < Len(t)
  \/ /\ Len(s) = Len(t)
     /\ \E i \in DOMAIN s :
          /\ digitOf(s[i]) < digitOf(t[i])
          /\ \A j \in 1..(i - 1) : s[j] = t[j]

\* 2^32 - 1, the first number that is not an array index
NotAnIndex == <<"4","2","9","4","9","6","7","2","9","5">>

\* whether a property key is an array index: such keys come first, in
\* ascending order, when the properties of an object are listed
isArrayIndex(s) ==
  /\ s # <<>>
  /\ \A i \in DOMAIN s : arrayIncludes(Digits, s[i])
  /\ Len(s) = 1 \/ s[1] # "0"
  /\ numberLess(s, NotAnIndex)

\* dominantLang reporting a language, 'unknown', for a repository with no file
dominantLang_unknown(files) ==
  LET exts == [i \in DOMAIN files |-> extensionOf(files[i].path)]
      keys == newSet(exts)
      count(e) == Cardinality({i \in DOMAIN exts : exts[i] = e})
      most == Max({count(keys[i]) : i \in DOMAIN keys})
      isTop(e) == count(e) = most
      top == SelectSeq(keys, isTop)
  IN IF keys = <<>> THEN <<"u","n","k","n","o","w","n">> ELSE top[1]


\* Object.entries(extensions).sort((a, b) => b[1] - a[1])[0]?.[0]: the
\* extension counted most often, the first of them in the order of
\* Object.entries when several are; Undefined when there is no file
dominantLang(files) ==
  LET exts == [i \in DOMAIN files |-> extensionOf(files[i].path)]
      keys == newSet(exts)
      count(e) == Cardinality({i \in DOMAIN exts : exts[i] = e})
      most == Max({count(keys[i]) : i \in DOMAIN keys})
      isTop(e) == count(e) = most
      top == SelectSeq(keys, isTop)
      topIndices == {i \in DOMAIN top : isArrayIndex(top[i])}
  IN IF keys = <<>> THEN Undefined
     ELSE IF topIndices = {} THEN top[1]
     ELSE top[CHOOSE i \in topIndices :
                \A j \in topIndices : ~numberLess(top[j], top[i])]

\* the ecosystem of a dominant extension
ecosystemOf(lang) ==
  IF lang \in {<<"j","s">>, <<"t","s">>, <<"j","s","x">>, <<"t","s","x">>} THEN "js"
  ELSE IF lang = <<"p","y">> THEN "py"
  ELSE IF lang = <<"r","s">> THEN "rs"
  ELSE IF lang = <<"g","o">> THEN "go"
  ELSE "none"

ecosystemFocusAreas(eco) ==
  CASE eco = "js" -> << <<"N","P","M"," ","D","e","p","e","n","d","e","n","c","i","e","s">>, <<"A","s","y","n","c","/","A","w","a","i","t"," ","U","s","a","g","e">>, <<"R","e","a","c","t","/","N","o","d","e"," ","p","a","t","t","e","r","n","s">> >>
    [] eco = "py" -> << <<"P","i","p"," ","D","e","p","e","n","d","e","n","c","i","e","s">>, <<"P","y","t","h","o","n","i","c"," ","I","d","i","o","m","s">>, <<"T","y","p","e"," ","H","i","n","t","i","n","g">> >>
    [] eco = "rs" -> << <<"M","e","m","o","r","y"," ","S","a","f","e","t","y">>, <<"C","o","n","c","u","r","r","e","n","c","y">> >>
    [] eco = "go" -> << <<"G","o","r","o","u","t","i","n","e","s">>, <<"E","r","r","o","r"," ","H","a","n","d","l","i","n","g">> >>
    [] OTHER -> <<>>

ecosystemInsights(eco) ==
  CASE eco = "js" -> << <<"C","h","e","c","k","i","n","g"," ","f","o","r"," ","c","o","m","m","o","n"," ","J","S","/","T","S"," ","r","i","s","k","s"," ","(","p","r","o","t","o","t","y","p","e"," ","p","o","l","l","u","t","i","o","n",","," ","i","n","j","e","c","t","i","o","n",")",".">> >>
    [] eco = "py" -> << <<"C","h","e","c","k","i","n","g"," ","f","o","r"," ","c","o","m","m","o","n"," ","P","y","t","h","o","n"," ","r","i","s","k","s"," ","(","p","i","c","k","l","e",","," ","e","v","a","l",","," ","i","n","p","u","t",")",".">> >>
    [] eco = "rs" -> << <<"R","u","s","t"," ","c","o","d","e","b","a","s","e"," ","d","e","t","e","c","t","e","d","."," ","F","o","c","u","s","i","n","g"," ","o","n"," ","s","a","f","e","t","y"," ","g","u","a","r","a","n","t","e","e","s",".">> >>
    [] eco = "go" -> << <<"G","o"," ","c","o","d","e","b","a","s","e"," ","d","e","t","e","c","t","e","d","."," ","F","o","c","u","s","i","n","g"," ","o","n"," ","c","o","n","c","u","r","r","e","n","c","y"," ","p","a","t","t","e","r","n","s",".">> >>
    [] OTHER -> <<>>

\* the size above which a repository is large
LargeRepository == 100

\* a size tier that starts at the size itself
isLarge_atLeast(totalFiles) == totalFiles >= LargeRepository

\* context.totalFiles > 100
isLarge(totalFiles) == totalFiles > LargeRepository

\* a perspective selection that looks for the attacker's keywords first
perspectiveOf_attackerFirst(q) ==
  LET qLower == toLowerCase(q) IN
  IF includes(qLower, <<"h","a","c","k">>) \/ includes(qLower, <<"s","e","c","u","r","e">>) THEN "attacker"
  ELSE IF includes(qLower, <<"o","p","t","i","m","i","z","e">>) \/ includes(qLower, <<"f","a","s","t">>) THEN "performance"
  ELSE "maintainer"


\* the perspective that the question selects
perspectiveOf(q) ==
  LET qLower == toLowerCase(q) IN
  IF includes(qLower, <<"o","p","t","i","m","i","z","e">>) \/ includes(qLower, <<"f","a","s","t">>) THEN "performance"
  ELSE IF includes(qLower, <<"h","a","c","k">>) \/ includes(qLower, <<"s","e","c","u","r","e">>) THEN "attacker"
  ELSE "maintainer"

perspectiveInsight(p) ==
  CASE p = "performance" ->
         <<"P","e","r","s","p","e","c","t","i","v","e",":"," ","P","e","r","f","o","r","m","a","n","c","e"," ","E","n","g","i","n","e","e","r"," ","-"," ","F","o","c","u","s","i","n","g"," ","o","n"," ","l","o","o","p","s",","," ","d","a","t","a","b","a","s","e"," ","q","u","e","r","i","e","s",","," ","a","n","d"," ","r","e","s","o","u","r","c","e"," ","u","s","a","g","e",".">>
    [] p = "attacker" ->
         <<"P","e","r","s","p","e","c","t","i","v","e",":"," ","A","t","t","a","c","k","e","r"," ","-"," ","L","o","o","k","i","n","g"," ","f","o","r"," ","e","n","t","r","y"," ","p","o","i","n","t","s",","," ","u","n","v","a","l","i","d","a","t","e","d"," ","i","n","p","u","t","s",","," ","a","n","d"," ","w","e","a","k"," ","a","u","t","h",".">>
    [] OTHER ->
         <<"P","e","r","s","p","e","c","t","i","v","e",":"," ","M","a","i","n","t","a","i","n","e","r"," ","-"," ","E","v","a","l","u","a","t","i","n","g"," ","c","o","d","e"," ","c","l","a","r","i","t","y",","," ","d","o","c","u","m","e","n","t","a","t","i","o","n",","," ","a","n","d"," ","s","t","r","u","c","t","u","r","e",".">>

\* the ReasoningResult of AdaReasoner.analyze when it does not throw
adaAnalyze(ctx, q) ==
  LET lang == dominantLang(ctx.files)
      eco == IF lang = Undefined THEN "none" ELSE ecosystemOf(lang)
      large == isLarge(ctx.totalFiles)
      insights ==
        (IF lang # Undefined
         THEN << <<"D","o","m","i","n","a","n","t"," ","l","a","n","g","u","a","g","e"," ","d","e","t","e","c","t","e","d",":"," ">> \o lang \o <<"."," ","A","p","p","l","y","i","n","g"," ">>
                   \o lang \o <<"-","s","p","e","c","i","f","i","c"," ","h","e","u","r","i","s","t","i","c","s",".">> >>
              \o ecosystemInsights(eco)
         ELSE <<>>)
        \o (IF large
            THEN << <<"L","a","r","g","e"," ","r","e","p","o","s","i","t","o","r","y"," ","d","e","t","e","c","t","e","d"," ","(",">","1","0","0"," ","f","i","l","e","s",")","."," ","A","p","p","l","y","i","n","g"," ","m","a","c","r","o","-","l","e","v","e","l"," ","a","r","c","h","i","t","e","c","t","u","r","a","l"," ","a","n","a","l","y","s","i","s"," ","f","i","r","s","t",".">> >>
            ELSE << <<"S","m","a","l","l","/","M","e","d","i","u","m"," ","r","e","p","o","s","i","t","o","r","y","."," ","A","p","p","l","y","i","n","g"," ","m","i","c","r","o","-","l","e","v","e","l"," ","c","o","d","e"," ","a","n","a","l","y","s","i","s",".">> >>)
        \o << perspectiveInsight(perspectiveOf(q)) >>
      focusAreas ==
        ecosystemFocusAreas(eco)
        \o (IF large
            THEN << <<"M","o","d","u","l","e"," ","B","o","u","n","d","a","r","i","e","s">>, <<"M","i","c","r","o","s","e","r","v","i","c","e","s","/","M","o","n","o","l","i","t","h"," ","S","t","r","u","c","t","u","r","e">> >>
            ELSE << <<"F","u","n","c","t","i","o","n"," ","L","o","g","i","c">>, <<"V","a","r","i","a","b","l","e"," ","N","a","m","i","n","g">>, <<"C","o","d","e"," ","S","t","y","l","e">> >>)
  IN [source |-> "AdaReasoner",
      insights |-> insights,
      confidence |-> 900,
      focusAreas |-> newSet(focusAreas),
      suggestedPrompts |-> <<>>]

\* ------------------------------------------------------------------------
\* ReasoningOrchestrator
\* ------------------------------------------------------------------------

\* whether an insight holds one of the words, in lower case
insightHas(i, words) == \E w \in words : includes(toLowerCase(i), w)

SecurityWords == {<<"s","e","c","u","r","i","t","y">>, <<"v","u","l","n","e","r","a","b","i","l","i","t","y">>, <<"a","u","t","h">>}

ArchitectureWords == {<<"a","r","c","h","i","t","e","c","t","u","r","e">>, <<"s","t","r","u","c","t","u","r","e">>, <<"f","l","o","w">>}

CodeQualityWords == {<<"t","o","d","o">>, <<"t","e","c","h","n","i","c","a","l"," ","d","e","b","t">>, <<"r","e","a","d","a","b","i","l","i","t","y">>, <<"c","o","d","e"," ","q","u","a","l","i","t","y">>}

SummaryPrefix == <<"C","o","m","b","i","n","e","d"," ","a","n","a","l","y","s","i","s"," ","f","r","o","m"," ","O","p","e","n","R","e","a","s","o","n"," ","a","n","d"," ","A","d","a","R","e","a","s","o","n","e","r","."," ","F","o","c","u","s",":"," ">>

\* the summary of combineResults
summaryOf(open, ada) ==
  SummaryPrefix \o join(open.focusAreas \o ada.focusAreas, CommaSpace)

\* buckets filled from all the insights, repetitions included
uniqueInsights_all(open, ada) == open.insights \o ada.insights

\* the insights of both results without their repetitions
uniqueInsights(open, ada) == newSet(open.insights \o ada.insights)

\* a confidence that is the one of the first analyzer
aggregate_first(a, b) == [num |-> a, den |-> 1]

\* (a + b) / 2, held as a fraction of thousandths so that nothing is rounded
aggregate(a, b) == [num |-> a + b, den |-> 2]

\* a combineResults that puts an insight in the first bucket that takes it
combineResults_exclusive(open, ada) ==
  LET isSecurity(i) == insightHas(i, SecurityWords)
      isArchitecture(i) == ~isSecurity(i) /\ insightHas(i, ArchitectureWords)
      isCodeQuality(i) ==
        ~isSecurity(i) /\ ~insightHas(i, ArchitectureWords) /\ insightHas(i, CodeQualityWords)
  IN [summary |-> summaryOf(open, ada),
      securityConcerns |-> SelectSeq(uniqueInsights(open, ada), isSecurity),
      architectureInsights |-> SelectSeq(uniqueInsights(open, ada), isArchitecture),
      codeQualityIssues |-> SelectSeq(uniqueInsights(open, ada), isCodeQuality),
      aggregatedConfidence |-> aggregate(open.confidence, ada.confidence)]


\* ReasoningOrchestrator.combineResults
combineResults(open, ada) ==
  LET isSecurity(i) == insightHas(i, SecurityWords)
      isArchitecture(i) == insightHas(i, ArchitectureWords)
      isCodeQuality(i) == insightHas(i, CodeQualityWords)
  IN [summary |-> summaryOf(open, ada),
      securityConcerns |-> SelectSeq(uniqueInsights(open, ada), isSecurity),
      architectureInsights |-> SelectSeq(uniqueInsights(open, ada), isArchitecture),
      codeQualityIssues |-> SelectSeq(uniqueInsights(open, ada), isCodeQuality),
      aggregatedConfidence |-> aggregate(open.confidence, ada.confidence)]

\* ------------------------------------------------------------------------
\* Inputs of the reasoning layer
\* ------------------------------------------------------------------------

File(path, content) == [path |-> path, content |-> content, type |-> "file"]

Directory(path) == [path |-> path, content |-> <<>>, type |-> "directory"]

\* a repository without files
EmptyContext == [files |-> <<>>, structure |-> <<>>, totalFiles |-> 0]

\* a Go repository with a TODO comment
GoContext ==
  [files |-> << File(<<"m","a","i","n",".","g","o">>, <<"p","a","c","k","a","g","e"," ","m","a","i","n"," ","/","/"," ","T","O","D","O">>),
                File(<<"u","t","i","l",".","g","o">>, <<"f","u","n","c"," ","x","(",")"," ","{">> \o <<"}">>) >>,
   structure |-> <<"m","a","i","n",".","g","o","\n","u","t","i","l",".","g","o","\n">>,
   totalFiles |-> 2]

\* a TypeScript repository with a directory, a key file and a secret
TsContext ==
  [files |-> << Directory(<<"s","r","c">>),
                File(<<"s","r","c","/","A","p","p",".","t","s">>, <<"c","o","n","s","t"," ","T","o","k","e","n"," ","="," ","1">>),
                File(<<"s","r","c","/","u","t","i","l",".","t","s">>, <<"e","x","p","o","r","t"," ","{">> \o <<"}">>) >>,
   structure |-> <<"s","r","c","/","\n"," "," ","A","p","p",".","t","s","\n"," "," ","u","t","i","l",".","t","s","\n">>,
   totalFiles |-> 2]

\* the most key files of a context
MaxKeyFiles == 8

\* a repository of n directories that hold a README.md each
KeyFilesContext(n) ==
  [files |-> [i \in 1..n |-> File(<<"d">> \o toString(i) \o <<"/","R","E","A","D","M","E",".","m","d">>, <<"#"," ","n","o","t","e","s">>)],
   structure |-> join([i \in 1..n |-> <<"d">> \o toString(i) \o <<"/","\n"," "," ","R","E","A","D","M","E",".","m","d","\n">>], <<>>),
   totalFiles |-> n]

\* a context without a structure: OpenReasoner throws on it
NoStructureContext == [GoContext EXCEPT !.structure = Undefined]

\* a context with an entry without a path: both analyzers throw on it
NoPathContext ==
  [GoContext EXCEPT !.files = << [path |-> Undefined, content |-> <<>>, type |-> "file"] >>]

\* the contexts that analyze is called with
Contexts ==
  {EmptyContext, GoContext, TsContext, NoStructureContext, NoPathContext}
    \cup {KeyFilesContext(n) : n \in 1..MaxKeyFiles}

\* the questions that analyze is called with
Questions ==
  { <<"A","n","y"," ","b","u","g"," ","h","e","r","e","?">>, <<"I","s"," ","t","h","e"," ","l","o","g","i","n"," ","s","e","c","u","r","e","?">>, <<"S","e","c","u","r","i","t","y"," ","a","u","d","i","t">>,
    <<"E","x","p","l","a","i","n"," ","t","h","e"," ","s","t","r","u","c","t","u","r","e">>, <<"M","a","k","e"," ","i","t"," ","F","A","S","T">> }

\* the errors that the analyzers throw
OpenError == [name |-> "TypeError", thrownBy |-> "OpenReason"]

AdaError == [name |-> "TypeError", thrownBy |-> "AdaReasoner"]

\* ------------------------------------------------------------------------
\* Actions of ReasoningOrchestrator.analyze
\* ------------------------------------------------------------------------

\* the result of an analyzer that did not run
EmptyResult ==
  [source |-> "none", insights |-> <<>>, confidence |-> 0,
   focusAreas |-> <<>>, suggestedPrompts |-> <<>>]

\* what a promise holds for combineResults
valueOr(p) == IF p.state = "fulfilled" THEN p.value ELSE EmptyResult

\* a join that is over as soon as one analyzer has completed
promiseAll_race(all, o, a, last) ==
  IF all.state # "pending" THEN all
  ELSE IF o.state = "rejected" THEN RejectedWith(o.value)
  ELSE IF a.state = "rejected" THEN RejectedWith(a.value)
  ELSE Fulfilled(<<valueOr(o), valueOr(a)>>)

\* a join that puts up with the failure of an analyzer
promiseAll_tolerant(all, o, a, last) ==
  IF all.state # "pending" THEN all
  ELSE IF o.state # "pending" /\ a.state # "pending"
  THEN Fulfilled(<<valueOr(o), valueOr(a)>>)
  ELSE Pending

\* a join whose values are in the order of completion
promiseAll_completionOrder(all, o, a, last) ==
  IF all.state # "pending" THEN all
  ELSE IF o.state = "rejected" THEN RejectedWith(o.value)
  ELSE IF a.state = "rejected" THEN RejectedWith(a.value)
  ELSE IF o.state = "fulfilled" /\ a.state = "fulfilled"
  THEN IF last = "open" THEN Fulfilled(<<a.value, o.value>>)
       ELSE Fulfilled(<<o.value, a.value>>)
  ELSE Pending

\* Promise.all([o, a]) after the promise named last has settled: it is
\* rejected with the first rejection, and fulfilled with the values of both,
\* in the order of the array, when both are fulfilled
promiseAll(all, o, a, last) ==
  IF all.state # "pending" THEN all
  ELSE IF o.state = "rejected" THEN RejectedWith(o.value)
  ELSE IF a.state = "rejected" THEN RejectedWith(a.value)
  ELSE IF o.state = "fulfilled" /\ a.state = "fulfilled"
  THEN Fulfilled(<<o.value, a.value>>)
  ELSE Pending

\* analyze(ctx, q) up to its await: both analyzers are called and the call
\* waits for Promise.all
analyze(ctx, q) ==
  /\ orch # "awaiting"
  /\ context' = ctx
  /\ question' = q
  /\ openPromise' = Pending
  /\ adaPromise' = Pending
  /\ joinPromise' = Pending
  /\ settleOrder' = <<>>
  /\ combined' = NotSettled
  /\ orch' = "awaiting"
  /\ UNCHANGED <<generationVars, detectorVars, appVars>>

\* the promise of openReasoner.analyze settles
openSettles ==
  /\ openPromise.state = "pending"
  /\ LET p == IF openThrows(context, question)
              THEN RejectedWith(OpenError)
              ELSE Fulfilled(openAnalyze(context, question))
     IN /\ openPromise' = p
        /\ joinPromise' = promiseAll(joinPromise, p, adaPromise, "open")
  /\ settleOrder' = Append(settleOrder, "open")
  /\ UNCHANGED <<context, question, adaPromise, combined, orch>>
  /\ UNCHANGED <<generationVars, detectorVars, appVars>>

\* the promise of adaReasoner.analyze settles
adaSettles ==
  /\ adaPromise.state = "pending"
  /\ LET p == IF adaThrows(context, question)
              THEN RejectedWith(AdaError)
              ELSE Fulfilled(adaAnalyze(context, question))
     IN /\ adaPromise' = p
        /\ joinPromise' = promiseAll(joinPromise, openPromise, p, "ada")
  /\ settleOrder' = Append(settleOrder, "ada")
  /\ UNCHANGED <<context, question, openPromise, combined, orch>>
  /\ UNCHANGED <<generationVars, detectorVars, appVars>>

\* the await of analyze is over: analyze returns combineResults of the two
\* results, or throws what Promise.all was rejected with
analyzeResumes ==
  /\ orch = "awaiting"
  /\ joinPromise.state # "pending"
  /\ combined' =
       IF joinPromise.state = "fulfilled"
       THEN [status |-> "ok",
             value |-> combineResults(joinPromise.value[1], joinPromise.value[2])]
       ELSE [status |-> "error", value |-> joinPromise.value]
  /\ orch' = "settled"
  /\ UNCHANGED <<context, question, openPromise, adaPromise, joinPromise, settleOrder>>
  /\ UNCHANGED <<generationVars, detectorVars, appVars>>

NextReason ==
  \/ \E ctx \in Contexts, q \in Questions : analyze(ctx, q)
  \/ openSettles
  \/ adaSettles
  \/ analyzeResumes

SpecReason == Init /\ [][NextReason]_vars

\* ------------------------------------------------------------------------
\* combineResults on its own
\* ------------------------------------------------------------------------

\* insights that land in two buckets, in one, in none
InsightPool ==
  << <<"W","e","a","k"," ","a","u","t","h"," ","f","l","o","w">>, <<"T","O","D","O",":"," ","r","e","a","d","a","b","i","l","i","t","y">>, <<"N","o","t","h","i","n","g"," ","t","o"," ","s","e","e">> >>

\* the most insights of a result
MaxInsights == 2

\* the lists of at most MaxInsights insights of the pool, repetitions included
InsightLists ==
  UNION {[1..n -> {InsightPool[i] : i \in DOMAIN InsightPool}] : n \in 0..MaxInsights}

\* the results that combineResults is applied to
ResultsOf(source, confidence) ==
  {[source |-> source, insights |-> l, confidence |-> confidence,
    focusAreas |-> <<>>, suggestedPrompts |-> <<>>] : l \in InsightLists}

\* both analyzers have returned and analyze is about to resume
InitCombine ==
  /\ GenerationIdle
  /\ DetectorIdle
  /\ AppIdle
  /\ context = NoContext
  /\ question = Null
  /\ orch = "awaiting"
  /\ \E o \in ResultsOf("OpenReason", 850), a \in ResultsOf("AdaReasoner", 900) :
       /\ openPromise = Fulfilled(o)
       /\ adaPromise = Fulfilled(a)
       /\ joinPromise = Fulfilled(<<o, a>>)
  /\ settleOrder = <<"open", "ada">>
  /\ combined = NotSettled

NextCombine == analyzeResumes

SpecCombine == InitCombine /\ [][NextCombine]_vars

\* ------------------------------------------------------------------------
\* The analyzers on the keywords of a question
\* ------------------------------------------------------------------------

\* the keywords that the analyzers look for in a question
Keywords ==
  { <<"s","e","c","u","r","i","t","y">>, <<"v","u","l","n","e","r","a","b","i","l","i","t","y">>, <<"e","x","p","l","o","i","t">>,
    <<"a","r","c","h","i","t","e","c","t","u","r","e">>, <<"d","e","s","i","g","n">>, <<"s","t","r","u","c","t","u","r","e">>,
    <<"b","u","g">>, <<"f","i","x">>, <<"e","r","r","o","r">>,
    <<"o","p","t","i","m","i","z","e">>, <<"f","a","s","t">>, <<"h","a","c","k">>, <<"s","e","c","u","r","e">> }

\* the number of keywords in a question
MaxWords == 2

\* w with its first letter in upper case
capitalised(w) ==
  <<UpperCase[CHOOSE j \in 1..Len(LowerCase) : LowerCase[j] = w[1]]>> \o Tail(w)

\* up to MaxWords different keywords, in every order
KeywordLists ==
  UNION {{s \in [1..n -> Keywords] : \A i, j \in 1..n : i # j => s[i] # s[j]} :
           n \in 0..MaxWords}

\* the questions made of keywords: 'Security design', 'Fast hack', ''
KeywordQuestions ==
  {IF s = <<>> THEN <<>>
   ELSE join(<<capitalised(s[1])>> \o Tail(s), <<" ">>) : s \in KeywordLists}

\* both analyzers were called on an empty repository with a question of
\* keywords
InitQuestion ==
  /\ GenerationIdle
  /\ DetectorIdle
  /\ AppIdle
  /\ context = EmptyContext
  /\ question \in KeywordQuestions
  /\ orch = "awaiting"
  /\ openPromise = Pending
  /\ adaPromise = Pending
  /\ joinPromise = Pending
  /\ settleOrder = <<>>
  /\ combined = NotSettled

NextQuestion ==
  \/ openSettles
  \/ adaSettles
  \/ analyzeResumes

SpecQuestion == InitQuestion /\ [][NextQuestion]_vars

\* ------------------------------------------------------------------------
\* The analyzers on the entries of a repository
\* ------------------------------------------------------------------------

\* the entries that the repositories are made of: two README.md in
\* different directories, one with a key and one with a TODO, a file that
\* holds two security keywords and a FIXME, a plain file, a manual page and
\* a directory
EntryPool ==
  { File(<<"d","o","c","s","/","R","E","A","D","M","E",".","m","d">>, <<"A","P","I","_","K","E","Y","=","x","y","z">>),
    File(<<"R","E","A","D","M","E",".","m","d">>, <<"/","/"," ","T","O","D","O"," ","f","i","x"," ","t","h","i","s">>),
    File(<<"m","a","i","n",".","g","o">>, <<"P","a","s","s","w","o","r","d"," ","a","n","d"," ","t","o","k","e","n",","," ","F","I","X","M","E">>),
    File(<<"u","t","i","l",".","g","o">>, <<"o","k">>),
    File(<<"g","i","t",".","1">>, <<"m","a","n","u","a","l">>),
    Directory(<<"t","o","d","o">>) }

\* the most entries of such a repository
MaxEntries == 3

\* a structure text for the entries: their paths, one per line (only the
\* depth insight of Variant A reads the structure)
structureOf(files) == join([i \in DOMAIN files |-> files[i].path \o <<"\n">>], <<>>)

\* the context of a repository with these entries: totalFiles is the
\* number of entries of type file, as parseRepository counts it
repositoryOf(files) ==
  [files |-> files,
   structure |-> structureOf(files),
   totalFiles |-> Cardinality({i \in DOMAIN files : files[i].type = "file"})]

\* the repositories of up to MaxEntries different entries, in every order
EntryContexts ==
  UNION {{repositoryOf(s) :
            s \in {t \in [1..n -> EntryPool] : \A i, j \in 1..n : i # j => t[i] # t[j]}} :
           n \in 0..MaxEntries}

\* the repositories of n source files, for the sizes around the one above
\* which a repository is large
SizedContexts ==
  {repositoryOf([i \in 1..n |-> File(<<"f">> \o toString(i) \o <<".","g","o">>, <<"o","k">>)]) :
     n \in {LargeRepository - 1, LargeRepository, LargeRepository + 1}}

\* a question without a keyword
PlainQuestion == <<"W","h","a","t"," ","d","o","e","s"," ","i","t"," ","d","o","?">>

\* both analyzers were called on a repository with the plain question
InitEntries ==
  /\ GenerationIdle
  /\ DetectorIdle
  /\ AppIdle
  /\ context \in EntryContexts \cup SizedContexts
  /\ question = PlainQuestion
  /\ orch = "awaiting"
  /\ openPromise = Pending
  /\ adaPromise = Pending
  /\ joinPromise = Pending
  /\ settleOrder = <<>>
  /\ combined = NotSettled

NextEntries ==
  \/ openSettles
  \/ adaSettles
  \/ analyzeResumes

SpecEntries == InitEntries /\ [][NextEntries]_vars

\* ------------------------------------------------------------------------
\* combineResults on the words of the buckets
\* ------------------------------------------------------------------------

\* the words that combineResults looks for in an insight
BucketWords == SecurityWords \cup ArchitectureWords \cup CodeQualityWords

\* an insight for each word, capitalised, and the insights of the pool
WordInsights ==
  {<<"N","o","t","e",":"," ">> \o capitalised(w) \o <<" ","m","a","t","t","e","r","s">> : w \in BucketWords}
    \cup {InsightPool[i] : i \in DOMAIN InsightPool}

\* the most insights of the first result
MaxWordInsights == 2

\* the first analyzer returned up to MaxWordInsights of these insights, the
\* second one an insight of the pool, and analyze is about to resume
InitBuckets ==
  /\ GenerationIdle
  /\ DetectorIdle
  /\ AppIdle
  /\ context = NoContext
  /\ question = Null
  /\ orch = "awaiting"
  /\ \E l \in UNION {[1..n -> WordInsights] : n \in 0..MaxWordInsights} :
       LET o == [source |-> "OpenReason", insights |-> l, confidence |-> 850,
                 focusAreas |-> <<>>, suggestedPrompts |-> <<>>]
           a == [source |-> "AdaReasoner", insights |-> <<InsightPool[1]>>,
                 confidence |-> 900, focusAreas |-> <<>>, suggestedPrompts |-> <<>>]
       IN /\ openPromise = Fulfilled(o)
          /\ adaPromise = Fulfilled(a)
          /\ joinPromise = Fulfilled(<<o, a>>)
  /\ settleOrder = <<"open", "ada">>
  /\ combined = NotSettled

SpecBuckets == InitBuckets /\ [][NextCombine]_vars

\* ------------------------------------------------------------------------
\* The RefusalDetector on its own
\* ------------------------------------------------------------------------

\* the phrases of the texts
Phrases ==
  { <<>>, <<"I"," ","c","a","n","n","o","t"," ","h","e","l","p">>, <<"T","h","a","t"," ","i","s"," ","H","A","R","M","F","U","L",".">>, <<"D","o","n","e",".">>,
    <<"o","k",","," ","h","e","r","e"," ","i","s"," ","t","h","e"," ","a","n","s","w","e","r">> }

\* the most blanks before the phrase of a text, beyond the scanned prefix
MaxPast == 1

\* the numbers of blanks before the phrase of a text
Pads ==
  {0, 3, 2 * RefusalPrefixLength}
    \cup ((RefusalPrefixLength - 18)..(RefusalPrefixLength + MaxPast))

\* the texts that the predicates are applied to
DetectorTexts == {Blanks(n) \o p : n \in Pads, p \in Phrases}

InitDetector ==
  /\ GenerationIdle
  /\ ReasoningIdle
  /\ AppIdle
  /\ text \in DetectorTexts
  /\ detected = NoVerdicts

\* isRefusal(text) is called
detectRefusal ==
  /\ "isRefusal" \notin detected.called
  /\ detected' = [detected EXCEPT !.called = @ \cup {"isRefusal"},
                                   !.isRefusal = isRefusal(text)]
  /\ UNCHANGED <<text, generationVars, reasoningVars, appVars>>

\* isQualityResponse(text) is called
detectQuality ==
  /\ "isQualityResponse" \notin detected.called
  /\ detected' = [detected EXCEPT !.called = @ \cup {"isQualityResponse"},
                                   !.isQualityResponse = isQualityResponse(text)]
  /\ UNCHANGED <<text, generationVars, reasoningVars, appVars>>

NextDetector ==
  \/ detectRefusal
  \/ detectQuality

SpecDetector == InitDetector /\ [][NextDetector]_vars

\* ------------------------------------------------------------------------
\* Vocabulary of the properties
\* ------------------------------------------------------------------------

Candidates == 1..Len(models)

\* caller c's call runs the fallback loop
InLoop(c) == op[c] \in {"generateWithFallback", "analyzeRepository"}

\* caller c's call has returned a response
Returned(c) == InLoop(c) /\ pc[c] = "idle" /\ result[c].status = "ok"

\* caller c's call has thrown the final error of the loop
Exhausted(c) ==
  InLoop(c) /\ pc[c] = "idle" /\ result[c].status = "error" /\ result[c].error = AllFailed

\* the positions of the events of kind ev for candidate k in a log
Events(lg, ev, k) == {i \in DOMAIN lg : lg[i].ev = ev /\ lg[i].cand = k}

\* candidate k failed softly in a log
SoftFailed(lg, k) ==
  \E i \in DOMAIN lg : lg[i].cand = k /\ lg[i].ev \in {"create_failed", "no_engine", "failed"}

\* caller c takes the step
Steps(c) == <<pc[c], log[c], result[c], op[c]>>' # <<pc[c], log[c], result[c], op[c]>>

\* caller c makes a call of operation o
Calls(c, o) == pc[c] = "idle" /\ calls' = calls + 1 /\ op'[c] = o /\ Steps(c)

\* ------------------------------------------------------------------------
\* C1
\* ------------------------------------------------------------------------

\* C1: a call of generateWithFallback tries the candidates in registry order
\* without skipping one: the candidates of its log never decrease and every
\* candidate up to the current one is in it; it creates at most one engine
\* and sends at most one completion request per candidate, so a candidate
\* whose answer fails is asked exactly once; and the call returns at the
\* first candidate that is accepted: every earlier candidate failed softly,
\* the acceptance is the last thing the call did, and no later candidate
\* was touched.
C1_RegistryOrderFirstAcceptable ==
  LET c == Observed IN InLoop(c) =>
    LET lg == log[c] IN
    /\ \A i, j \in DOMAIN lg : i < j => lg[i].cand <= lg[j].cand
    /\ \A k \in Candidates :
         /\ Cardinality(Events(lg, "create", k)) <= 1
         /\ Cardinality(Events(lg, "generate", k)) <= 1
         /\ Events(lg, "failed", k) # {} => Cardinality(Events(lg, "generate", k)) = 1
         /\ k <= idx[c] => \E i \in DOMAIN lg : lg[i].cand = k
         /\ k < idx[c] => SoftFailed(lg, k)
    /\ Returned(c) =>
         /\ lg[Len(lg)] = Event("accepted", idx[c], lg[Len(lg)].engine)
         /\ \A i \in DOMAIN lg : lg[i].cand <= idx[c]
         /\ \A i \in 1..(Len(lg) - 1) : lg[i].ev # "accepted"

\* a call returned the answer of the third candidate after the first two failed
C1_Witness ==
  LET c == Observed IN
    /\ Returned(c)
    /\ idx[c] = 3
    /\ Events(log[c], "failed", 1) # {}
    /\ Events(log[c], "failed", 2) # {}

\* ------------------------------------------------------------------------
\* C2
\* ------------------------------------------------------------------------

\* the number of times a log reached the backend of candidate k: the engine
\* creations and the completion requests made for it
Attempts(lg, k) ==
  Cardinality(Events(lg, "create", k)) + Cardinality(Events(lg, "generate", k))

\* C2: when generateWithFallback throws its final error, it has attempted
\* every registered backend exactly once: for each candidate it created an
\* engine or sent a completion request (no backend skipped), and it did
\* neither of them twice.
C2_ExhaustedAttemptsEveryBackendOnce ==
  LET c == Observed IN Exhausted(c) =>
    \A k \in Candidates :
      /\ Attempts(log[c], k) >= 1
      /\ Cardinality(Events(log[c], "create", k)) <= 1
      /\ Cardinality(Events(log[c], "generate", k)) <= 1

\* ------------------------------------------------------------------------
\* C3
\* ------------------------------------------------------------------------

\* C3: in generateWithFallback a failed initialize(candidate) is a soft
\* failure: the call never settles with the error of the engine creation,
\* and what follows a failed creation in the log is the next candidate; a
\* failed creation is the last entry of the log only until the catch block
\* has run, or when the failed candidate was the last of the registry.
C3_InitFailureIsSoft ==
  LET c == Observed IN InLoop(c) =>
    /\ result[c].error # LoadError
    /\ \A i \in DOMAIN log[c] : log[c][i].ev = "create_failed" =>
         IF i < Len(log[c])
         THEN log[c][i + 1].cand = log[c][i].cand + 1
         ELSE \/ pc[c] = "init_returned" /\ ~initOk[c]
              \/ Exhausted(c) /\ log[c][i].cand = Len(models)

\* a call returned an answer after the engine of an earlier candidate had
\* failed to load
C3_Witness ==
  LET c == Observed IN
    /\ Returned(c)
    /\ \E i \in DOMAIN log[c] : log[c][i].ev = "create_failed"

\* ------------------------------------------------------------------------
\* C4
\* ------------------------------------------------------------------------

\* the errors that the generation calls of caller c may settle with
ErrorsOf(c) == IF result[c].status = "error" THEN {result[c].error} ELSE {}

C4_ErrorsOfGeneration ==
  LET c == Observed IN
    /\ op[c] = "generateWithFallback" => ErrorsOf(c) \subseteq {AllFailed}
    /\ op[c] = "analyzeRepository" =>
         /\ ErrorsOf(c) \subseteq {AllFailed, NotInitialized}
         /\ NotInitialized \in ErrorsOf(c) => log[c] = <<>>

\* C4, amended, the part on steps: generateWithFallback called on a manager
\* that never loaded a model starts the creation of the engine of the first
\* candidate and throws nothing; a generation call through ModelLoader
\* throws the precondition error exactly when the loader is not initialized.
C4_LazyInitializationStep ==
  LET c == Observed IN
    /\ (Calls(c, "generateWithFallback") /\ currentModelId = Null) =>
         /\ pc'[c] = "creating"
         /\ arg'[c] = models[1].id
         /\ result'[c] = NoResult
    /\ Calls(c, "analyzeRepository") =>
         (NotInitialized \in ErrorsOf(c)' <=> ~initialized)

C5_FailedInitializeLeavesUninitialized ==
  [][\A c \in Callers :
       (pc[c] = "creating" /\ pc'[c] = "init_returned" /\ ~initOk'[c])
         => (currentEngine' = Null /\ currentModelId' = Null)]_vars

\* ------------------------------------------------------------------------
\* C6
\* ------------------------------------------------------------------------

\* C6: initialize(id) on a manager that holds the engine of id creates no
\* engine, changes neither currentEngine nor currentModelId and resolves: a
\* call of initialize on a manager that holds an engine either starts the
\* load of a model other than the active one, or it settles at once,
\* resolved, having touched nothing. ModelLoader.initialize on an
\* initialized loader likewise touches nothing, and on a loader that is not
\* initialized while the manager holds the primary engine it goes through
\* the same early return of the manager.
C6_InitializeIdempotentStep ==
  LET c == Observed IN
    /\ (Calls(c, "initialize") /\ currentEngine # Null) =>
         \/ /\ pc'[c] = "creating"
            /\ arg'[c] # currentModelId
         \/ /\ pc'[c] = "idle"
            /\ UNCHANGED <<currentEngine, currentModelId>>
            /\ result'[c] = Resolved
            /\ log'[c] = <<>>
    /\ (Calls(c, "loaderInitialize") /\ initialized) =>
         /\ UNCHANGED <<currentEngine, currentModelId, initialized>>
         /\ pc'[c] = "idle"
         /\ result'[c] = Resolved
         /\ log'[c] = <<>>
    /\ (Calls(c, "loaderInitialize") /\ ~initialized
          /\ currentEngine # Null /\ currentModelId = MODELS.PRIMARY.id) =>
         /\ UNCHANGED <<currentEngine, currentModelId>>
         /\ pc'[c] = "init_returned"
         /\ initOk'[c]
         /\ log'[c] = <<>>

\* C6: initialize is idempotent on the active backend.
C6_InitializeIdempotent == [][C6_InitializeIdempotentStep]_vars

\* an initialize call on a manager that holds an engine has resolved without
\* creating an engine
C6_Witness ==
  LET c == Observed IN
    /\ op[c] = "initialize"
    /\ pc[c] = "idle"
    /\ result[c] = Resolved
    /\ log[c] = <<>>
    /\ currentEngine # Null
    /\ currentModelId = currentEngine

\* ------------------------------------------------------------------------
\* C7
\* ------------------------------------------------------------------------

\* the engine loads in flight
Loading == {c \in Callers : pc[c] = "creating"}

\* C7: at most one backend is loaded or being loaded at any time: the
\* manager never holds an engine while an engine load is in flight, and no
\* two engine loads are in flight together.
C7_AtMostOneBackendActive ==
  (IF currentEngine # Null THEN 1 ELSE 0) + Cardinality(Loading) <= 1

\* ------------------------------------------------------------------------
\* C8
\* ------------------------------------------------------------------------

\* C8: calls that run concurrently never leave the manager with an
\* inconsistent identity: whenever no call is in progress, currentModelId
\* names the backend whose engine currentEngine holds (both are null, or
\* both are the same model).
C8_ConsistentIdentity == Quiet => currentModelId = currentEngine

\* ------------------------------------------------------------------------
\* C9
\* ------------------------------------------------------------------------

PassesBothGates ==
  {t \in {contentOf(r) : r \in Completions} : ~isRefusal(t) /\ isQualityResponse(t)}

\* C10: every response that generateWithFallback returns has isRefusal
\* false and a content that RefusalDetector.isRefusal rejects and
\* RefusalDetector.isQualityResponse accepts; a completion that fails a
\* gate is not returned, the call has gone on past its candidate.
C10_ReturnedPassesBothGates ==
  LET c == Observed IN
    /\ Returned(c) =>
         /\ result[c].response.isRefusal = FALSE
         /\ result[c].response.content \in PassesBothGates
    /\ (InLoop(c) /\ verdict[c] \in {"refused", "low_quality"}) =>
         /\ result[c].status # "ok"
         /\ log[c] # <<>>
         /\ \E i \in DOMAIN log[c] :
              /\ log[c][i].ev = "failed"
              /\ log[c][i].cand < idx[c]
              /\ \A j \in DOMAIN log[c] : j > i => log[c][j].cand > log[c][i].cand

\* a call returned a content that holds a refusal phrase after the scanned
\* prefix of the response
C10_Witness ==
  LET c == Observed IN
    /\ Returned(c)
    /\ result[c].response.content = LateRefusalText

\* ------------------------------------------------------------------------
\* C11
\* ------------------------------------------------------------------------

\* C11, the part on steps: a generation call that enters the fallback loop
\* starts at the primary backend, whatever the manager holds at that time.
C11_StartsAtPrimaryStep ==
  LET c == Observed IN
    (\/ Calls(c, "generateWithFallback")
     \/ Calls(c, "analyzeRepository") /\ initialized) =>
      /\ log'[c] # <<>>
      /\ log'[c][1].cand = 1
      /\ log'[c][1].ev = "create" => log'[c][1].engine = MODELS.PRIMARY.id

\* C11, the part on states: the walk of a generation call is the registry
\* order, one candidate after the other, and the engine created for
\* candidate k is the one of the k-th entry of the registry.
C11_WalksRegistryOrder ==
  LET c == Observed
      lg == log[c]
  IN InLoop(c) =>
       /\ lg # <<>> => lg[1].cand = 1
       /\ \A i \in 1..(Len(lg) - 1) : lg[i + 1].cand \in {lg[i].cand, lg[i].cand + 1}
       /\ \A i \in DOMAIN lg : lg[i].ev = "create" => lg[i].engine = models[lg[i].cand].id

\* C11: the fallback order is never re-ranked at runtime: every generation
\* call starts at the primary backend and walks the fixed order PRIMARY,
\* FALLBACK_1, FALLBACK_2, whatever backend is active when it is called and
\* whatever failed or was refused in the calls before it.
C11_FixedFallbackOrder ==
  [][C11_StartsAtPrimaryStep]_vars /\ []C11_WalksRegistryOrder

\* a generation call made after two other calls, on a manager whose active
\* backend was the last fallback, has started with the load of the primary
C11_Witness ==
  LET c == Observed IN
    /\ InLoop(c)
    /\ calls = MaxCalls
    /\ pc[c] = "creating"
    /\ log[c] = <<Event("create", 1, MODELS.PRIMARY.id)>>
    /\ currentModelId = MODELS.FALLBACK_2.id

\* ------------------------------------------------------------------------
\* Vocabulary of the properties of the reasoning layer
\* ------------------------------------------------------------------------

\* analyze has returned a CombinedReasoning
Combined == combined.status = "ok"

\* the analyzers whose promise is rejected
FailedAnalyzers == {p \in {openPromise, adaPromise} : p.state = "rejected"}

\* the three buckets of a CombinedReasoning
Buckets(v) == <<v.securityConcerns, v.architectureInsights, v.codeQualityIssues>>

\* the position at which x occurs first in the array a
firstIndex(a, x) == CHOOSE i \in DOMAIN a : a[i] = x /\ \A j \in 1..(i - 1) : a[j] # x

\* ------------------------------------------------------------------------
\* C12
\* ------------------------------------------------------------------------

\* C12, the part on steps: a call of analyze starts both analyzers, and the
\* step that produces the CombinedReasoning is taken when both analyzers
\* have completed, and produces it from the results of both.
C12_JoinStep ==
  /\ (orch # "awaiting" /\ orch' = "awaiting") =>
       /\ openPromise'.state = "pending"
       /\ adaPromise'.state = "pending"
  /\ (~Combined /\ Combined') =>
       /\ openPromise.state = "fulfilled"
       /\ adaPromise.state = "fulfilled"
       /\ combined'.value = combineResults(openPromise.value, adaPromise.value)

\* C12, the part on states: there is no result, combined or partial, while
\* the call waits, and a CombinedReasoning exists only when both analyzers
\* have completed.
C12_NoEarlyResult ==
  /\ orch = "awaiting" => combined = NotSettled
  /\ Combined =>
       /\ orch = "settled"
       /\ openPromise.state = "fulfilled"
       /\ adaPromise.state = "fulfilled"

\* C12: ReasoningOrchestrator.analyze starts both analyzers and produces
\* the CombinedReasoning only after both have completed (join barrier): in
\* no interleaving is a combined or partial result produced while an
\* analyzer is still running.
C12_JoinBarrier == [][C12_JoinStep]_vars /\ []C12_NoEarlyResult

\* analyze has returned a CombinedReasoning with insights in its buckets
\* after both analyzers completed
C12_Witness ==
  /\ Combined
  /\ context = TsContext
  /\ combined.value.securityConcerns # <<>>
  /\ combined.value.architectureInsights # <<>>

\* ------------------------------------------------------------------------
\* C13
\* ------------------------------------------------------------------------

\* C13: if either analyzer fails, analyze fails with that failure and
\* returns no CombinedReasoning: as soon as an analyzer has failed the join
\* is rejected with the failure of an analyzer that failed, whatever the
\* other analyzer did or does later, analyze never returns a
\* CombinedReasoning, and when it settles it throws the error of the join.
C13_FailFast ==
  /\ FailedAnalyzers # {} =>
       /\ joinPromise.state = "rejected"
       /\ joinPromise.value \in {p.value : p \in FailedAnalyzers}
       /\ ~Combined
       /\ orch = "settled" => combined = [status |-> "error", value |-> joinPromise.value]
  /\ combined.status = "error" =>
       combined.value \in {p.value : p \in FailedAnalyzers}

\* analyze threw the error of OpenReasoner although AdaReasoner had
\* completed, first, with a result
C13_Witness ==
  /\ orch = "settled"
  /\ settleOrder = <<"ada", "open">>
  /\ adaPromise.state = "fulfilled"
  /\ openPromise.state = "rejected"
  /\ combined = [status |-> "error", value |-> OpenError]

\* ------------------------------------------------------------------------
\* C14
\* ------------------------------------------------------------------------

\* C14: the CombinedReasoning does not depend on the order in which the
\* analyzers complete: it is combineResults of the result of OpenReasoner
\* and the result of AdaReasoner for the context and the question of the
\* call, in that order, so the same inputs give the same buckets, summary
\* and aggregatedConfidence; and in every bucket no insight that only
\* AdaReasoner gave comes before an insight of OpenReasoner.
C14_OrderIndependent ==
  Combined =>
    LET o == openAnalyze(context, question)
        a == adaAnalyze(context, question)
        v == combined.value
    IN /\ v = combineResults(o, a)
       /\ \A k \in 1..3 :
            LET b == Buckets(v)[k] IN
            \A i, j \in DOMAIN b :
              (i < j /\ arrayIncludes(o.insights, b[j])) => arrayIncludes(o.insights, b[i])

\* analyze has returned a bucket that holds insights of both analyzers
\* after AdaReasoner completed before OpenReasoner
C14_Witness ==
  /\ Combined
  /\ settleOrder = <<"ada", "open">>
  /\ \E i, j \in DOMAIN combined.value.architectureInsights :
       /\ arrayIncludes(openPromise.value.insights, combined.value.architectureInsights[i])
       /\ arrayIncludes(adaPromise.value.insights, combined.value.architectureInsights[j])

\* ------------------------------------------------------------------------
\* C15
\* ------------------------------------------------------------------------

\* C15: every ReasoningResult that an analyzer produces has a confidence
\* in [0,1], for every repository context.
C15_ConfidenceInUnitInterval ==
  \A p \in {openPromise, adaPromise} :
    p.state = "fulfilled" =>
      /\ 0 <= p.value.confidence
      /\ p.value.confidence <= Thousandths

\* ------------------------------------------------------------------------
\* C16
\* ------------------------------------------------------------------------

\* C16: aggregatedConfidence is the arithmetic mean of the confidences of
\* the two results; it is 0.875 when they are 0.85 and 0.9.
C16_AggregatedIsMean ==
  Combined =>
    LET o == openPromise.value.confidence
        a == adaPromise.value.confidence
        agg == combined.value.aggregatedConfidence
    IN /\ 2 * agg.num = agg.den * (o + a)
       /\ (o = 850 /\ a = 900) => agg.num = 875 * agg.den

\* analyze has returned for results of confidence 0.85 and 0.9
C16_Witness ==
  /\ Combined
  /\ openPromise.value.confidence = 850
  /\ adaPromise.value.confidence = 900

\* ------------------------------------------------------------------------
\* C17
\* ------------------------------------------------------------------------

\* the number of places at which p occurs in s
occurrences(s, p) ==
  Cardinality({i \in 0..(Len(s) - Len(p)) : SubSeq(s, i + 1, i + Len(p)) = p})

\* C17: the summary embeds the union of the focusAreas of both results,
\* joined by ', ': a focus area that both analyzers emit is in the summary
\* exactly once.
C17_SummaryEmbedsUnion ==
  Combined =>
    LET o == openPromise.value.focusAreas
        a == adaPromise.value.focusAreas
    IN /\ combined.value.summary = SummaryPrefix \o join(newSet(o \o a), CommaSpace)
       /\ \A i \in DOMAIN o : occurrences(combined.value.summary, o[i]) = 1
       /\ \A i \in DOMAIN a : occurrences(combined.value.summary, a[i]) = 1

\* ------------------------------------------------------------------------
\* C18
\* ------------------------------------------------------------------------

\* C18: each of the three buckets holds no insight twice, holds insights of
\* the two results only, and lists them in the order in which they occur
\* first in the insights of the first result followed by those of the
\* second, also when the two results share insights.
C18_BucketsDedupFirstSeen ==
  Combined =>
    LET all == openPromise.value.insights \o adaPromise.value.insights IN
    \A k \in 1..3 :
      LET b == Buckets(combined.value)[k] IN
      /\ \A i, j \in DOMAIN b : i # j => b[i] # b[j]
      /\ \A i \in DOMAIN b : arrayIncludes(all, b[i])
      /\ \A i, j \in DOMAIN b : i < j => firstIndex(all, b[i]) < firstIndex(all, b[j])

\* two results that share an insight of the security bucket were combined
C18_Witness ==
  /\ Combined
  /\ \E i \in DOMAIN combined.value.securityConcerns :
       /\ arrayIncludes(openPromise.value.insights, combined.value.securityConcerns[i])
       /\ arrayIncludes(adaPromise.value.insights, combined.value.securityConcerns[i])
  /\ Len(combined.value.securityConcerns) = 1
  /\ Len(openPromise.value.insights) = MaxInsights

\* ------------------------------------------------------------------------
\* C19
\* ------------------------------------------------------------------------

\* the lower-case form of a character
lowerOf(ch) == toLowerCase(<<ch>>)[1]

\* a refusal phrase lies, whatever the case of its letters, within the
\* first n characters of t
PhraseWithin(t, n) ==
  \E p \in DOMAIN refusalPatterns :
    \E i \in 0..(Min(n, Len(t)) - Len(refusalPatterns[p])) :
      \A j \in DOMAIN refusalPatterns[p] :
        lowerOf(t[i + j]) = lowerOf(refusalPatterns[p][j])

\* C19: isRefusal(text) is true only when a refusal phrase occurs, case-
\* insensitively, within the first 100 characters of text: a text whose
\* only refusal phrase lies after character 100 or straddles it is not a
\* refusal, and 200 spaces followed by 'I cannot help' give false.
C19_RefusalOnlyInPrefix ==
  "isRefusal" \in detected.called =>
    /\ detected.isRefusal => PhraseWithin(text, 100)
    /\ text = Blanks(200) \o <<"I"," ","c","a","n","n","o","t"," ","h","e","l","p">> => ~detected.isRefusal

\* isRefusal returned false for a text whose refusal phrase straddles the
\* hundredth character
C19_Witness ==
  /\ "isRefusal" \in detected.called
  /\ text = Blanks(95) \o <<"I"," ","c","a","n","n","o","t"," ","h","e","l","p">>
  /\ ~detected.isRefusal

\* ------------------------------------------------------------------------
\* C20
\* ------------------------------------------------------------------------

\* the length of t without the white space at its two ends
trimmedLength(t) ==
  LET keep == {i \in DOMAIN t : t[i] \notin WhiteSpace} IN
  IF keep = {} THEN 0
  ELSE Max(keep) - (CHOOSE i \in keep : \A j \in keep : i <= j) + 1

\* C20: isQualityResponse(text) is false exactly when text is empty or its
\* trimmed length is below 10, and true otherwise: '' and '   ' give false,
\* 'ok, here is the answer' gives true.
C20_QualityIffTrimmedLength ==
  "isQualityResponse" \in detected.called =>
    /\ detected.isQualityResponse = ~(text = <<>> \/ trimmedLength(text) < 10)
    /\ text \in {<<>>, <<" ", " ", " ">>} => ~detected.isQualityResponse
    /\ text = <<"o","k",","," ","h","e","r","e"," ","i","s"," ","t","h","e"," ","a","n","s","w","e","r">> => detected.isQualityResponse

\* isQualityResponse returned false for a text of more than 10 characters
\* that is short once trimmed
C20_Witness ==
  /\ "isQualityResponse" \in detected.called
  /\ Len(text) > 10
  /\ trimmedLength(text) = 5
  /\ ~detected.isQualityResponse


\* ------------------------------------------------------------------------
\* The analyzers on an empty repository

\* s starts with p
startsWith(s, p) == Len(p) <= Len(s) /\ SubSeq(s, 1, Len(p)) = p

\* the insights of a that start with p
insightsWith(a, p) == {i \in DOMAIN a : startsWith(a[i], p)}

\* the repository has no file
EmptyRepository == context.totalFiles = 0 /\ context.files = <<>>

\* the insights that depend on files: key files and keyword counts of
\* Variant A, the dominant language of Variant B
KeyFileInsight == <<"I","d","e","n","t","i","f","i","e","d"," ","k","e","y"," ","c","o","n","f","i","g","u","r","a","t","i","o","n","/","e","n","t","r","y"," ","f","i","l","e","s",":"," ">>

KeywordCountInsight == <<"F","o","u","n","d"," ">>

DominantLanguageInsight == <<"D","o","m","i","n","a","n","t"," ","l","a","n","g","u","a","g","e"," ","d","e","t","e","c","t","e","d",":"," ">>

\* the size tier of a repository of at most 100 files, and the perspectives
SmallTierInsight == <<"S","m","a","l","l","/","M","e","d","i","u","m"," ","r","e","p","o","s","i","t","o","r","y","."," ","A","p","p","l","y","i","n","g"," ","m","i","c","r","o","-","l","e","v","e","l"," ","c","o","d","e"," ","a","n","a","l","y","s","i","s",".">>

PerspectiveInsight == <<"P","e","r","s","p","e","c","t","i","v","e",":"," ">>

MaintainerInsight == <<"P","e","r","s","p","e","c","t","i","v","e",":"," ","M","a","i","n","t","a","i","n","e","r"," ","-"," ","E","v","a","l","u","a","t","i","n","g"," ","c","o","d","e"," ","c","l","a","r","i","t","y",","," ","d","o","c","u","m","e","n","t","a","t","i","o","n",","," ","a","n","d"," ","s","t","r","u","c","t","u","r","e",".">>

\* the question names a perspective
NamesPerspective(q) ==
  \E w \in {<<"o","p","t","i","m","i","z","e">>, <<"f","a","s","t">>, <<"h","a","c","k">>, <<"s","e","c","u","r","e">>} : includes(toLowerCase(q), w)

\* C21, as stated: on a repository with no file, Variant B's result holds
\* the default (maintainer) perspective insight.  It does not when the
\* question names the performance or the attacker perspective.
C21_DefaultPerspectiveAlways ==
  EmptyRepository /\ adaPromise.state = "fulfilled"
    => arrayIncludes(adaPromise.value.insights, MaintainerInsight)

\* C21, amended: on a repository with no file neither analyzer throws;
\* Variant A's result holds no key-file and no keyword-count insight;
\* Variant B's result holds no dominant-language insight, holds the size
\* tier insight of a small repository and exactly one perspective insight,
\* which is the default (maintainer) one when the question names no
\* perspective.
C21_EmptyRepositoryInsights ==
  EmptyRepository =>
    /\ openPromise.state # "rejected"
    /\ adaPromise.state # "rejected"
    /\ openPromise.state = "fulfilled" =>
         /\ insightsWith(openPromise.value.insights, KeyFileInsight) = {}
         /\ insightsWith(openPromise.value.insights, KeywordCountInsight) = {}
    /\ adaPromise.state = "fulfilled" =>
         /\ insightsWith(adaPromise.value.insights, DominantLanguageInsight) = {}
         /\ arrayIncludes(adaPromise.value.insights, SmallTierInsight)
         /\ Cardinality(insightsWith(adaPromise.value.insights, PerspectiveInsight)) = 1
         /\ ~NamesPerspective(question) =>
              arrayIncludes(adaPromise.value.insights, MaintainerInsight)

\* both analyzers returned on an empty repository, for a question that
\* names no perspective
C21_Witness ==
  /\ context = EmptyContext
  /\ openPromise.state = "fulfilled"
  /\ adaPromise.state = "fulfilled"
  /\ ~NamesPerspective(question)
  /\ arrayIncludes(adaPromise.value.insights, MaintainerInsight)


\* ------------------------------------------------------------------------
\* C22
\* ------------------------------------------------------------------------

\* the positions in caller c's log of the events that the step adds
Added(c) ==
  IF pc[c] = "idle" THEN DOMAIN log'[c]
  ELSE {i \in DOMAIN log'[c] : i > Len(log[c])}

\* C22: generateWithFallback calls initialize for a candidate only when the
\* active backend differs from it: every engine creation that a step of the
\* loop starts is for a candidate whose id is not currentModelId, and a step
\* of the loop that starts no engine creation and does not resume from one
\* (picking the active backend, receiving and accepting its answer) leaves
\* currentEngine and currentModelId as they are.
C22_LazyInitialization ==
  [][LET c == Observed
         creations == {i \in Added(c) : log'[c][i].ev = "create"}
     IN Steps(c) /\ InLoop(c)' =>
          /\ \A i \in creations : currentModelId # models[log'[c][i].cand].id
          /\ creations = {} /\ pc[c] # "creating" =>
               UNCHANGED <<currentEngine, currentModelId>>]_vars

\* a call was accepted by the backend that was already active: it created
\* no engine, after an earlier call had
C22_Witness ==
  LET c == Observed IN
  /\ Returned(c)
  /\ calls >= 2
  /\ idx[c] = 1
  /\ \A k \in Candidates : Events(log[c], "create", k) = {}
  /\ currentModelId = models[1].id
  /\ currentEngine = models[1].id


\* ------------------------------------------------------------------------
\* C23
\* ------------------------------------------------------------------------

\* C23: in sequential use, whenever no call is in flight the manager state
\* is consistent: currentModelId is non-null only if currentEngine holds
\* the loaded engine of that same backend.
C23_SequentialConsistency ==
  Quiet /\ currentModelId # Null => currentEngine = currentModelId


\* ------------------------------------------------------------------------
\* C24
\* ------------------------------------------------------------------------

\* C24: in sequential use, a failed backend switch is recoverable: the
\* backend X that was active before the failed switch (here the first
\* candidate, PRIMARY) is not passed over by a later generateWithFallback
\* call without an engine creation or a generation attempt.
C24_FailedSwitchRecoverable ==
  LET c == Observed IN
  InLoop(c) /\ (\E i \in DOMAIN log[c] : log[c][i].cand = 1)
    => Attempts(log[c], 1) >= 1

\* ------------------------------------------------------------------------
\* C25
\* ------------------------------------------------------------------------

\* each caller has made one call, of generateWithFallback
TwoGenerations == calls = 2 /\ \A d \in Callers : op[d] = "generateWithFallback"

\* C25: when two generateWithFallback calls interleave, a call issues the
\* completion request of a candidate on the engine of that candidate's
\* backend, so that the content it returns was produced by the backend
\* named in modelUsed.
C25_CompletionOnOwnEngine ==
  LET c == Observed IN
  TwoGenerations =>
    \A i \in DOMAIN log[c] :
      log[c][i].ev = "generate" => log[c][i].engine = models[log[c][i].cand].id


\* ------------------------------------------------------------------------
\* C26
\* ------------------------------------------------------------------------

\* C26: an exception thrown by the completion request is a soft failure:
\* the step in which caller c's completion request throws goes on to the
\* candidates after the one that threw, passing over none of them silently;
\* the call has no result while a candidate is left, and when none is left
\* it throws the all-failed error and nothing else.
C26_GenerationFailureIsSoft ==
  [][LET c == Observed IN
     Steps(c) /\ InLoop(c) /\ pc[c] = "generating" /\ verdict'[c] = "threw" =>
       /\ idx'[c] > idx[c]
       /\ \A k \in (idx[c] + 1)..Min(idx'[c], Len(models)) :
            \E i \in Added(c) : log'[c][i].cand = k
       /\ IF idx'[c] \in Candidates
          THEN pc'[c] # "idle" /\ result'[c] = NoResult
          ELSE pc'[c] = "idle" /\ result'[c] = Rejected(AllFailed)]_vars

\* the completion request of PRIMARY threw and the call is loading
\* FALLBACK_1
C26_Witness ==
  LET c == Observed IN
  /\ InLoop(c)
  /\ verdict[c] = "threw"
  /\ pc[c] = "creating"
  /\ idx[c] = 2
  /\ Events(log[c], "failed", 1) # {}


\* ------------------------------------------------------------------------
\* C27
\* ------------------------------------------------------------------------

\* the awaited call of caller c settles: the engine creation resolves or
\* rejects, the await of initialize resumes, the completion request settles
Continues(c) ==
  \/ createResolves(c)
  \/ createRejects(c)
  \/ initializeReturns(c)
  \/ \E r \in Completions : completionSettles(c, r)

\* the callers make generateWithFallback calls, interleaved
NextLive ==
  \/ \E c \in Callers : generateWithFallback(c)
  \/ \E c \in Callers : Continues(c)

\* generateWithFallback calls when every engine creation and every
\* completion request terminates
SpecLive == Init /\ [][NextLive]_vars /\ \A c \in Callers : WF_vars(Continues(c))

\* C27: provided every engine creation and completion request terminates,
\* a generateWithFallback call terminates, with an accepted result or with
\* the all-failed error, and it starts at most one engine creation and at
\* most one completion request per registered backend.
C27_TerminatesWithoutRetry ==
  LET c == Observed IN
  /\ [](InLoop(c) =>
          \A k \in Candidates :
            /\ Cardinality(Events(log[c], "create", k)) <= 1
            /\ Cardinality(Events(log[c], "generate", k)) <= 1)
  /\ (InLoop(c) /\ pc[c] # "idle") ~> (Returned(c) \/ Exhausted(c))

\* a call that ended with the all-failed error after a creation and a
\* completion request for every backend
C27_Witness ==
  LET c == Observed IN
  /\ Exhausted(c)
  /\ \A k \in Candidates :
       /\ Cardinality(Events(log[c], "create", k)) = 1
       /\ Cardinality(Events(log[c], "generate", k)) = 1


\* ------------------------------------------------------------------------
\* C28
\* ------------------------------------------------------------------------

\* caller d's ModelLoader.initialize resumes from its await of
\* ModelManager.initialize
LoaderResumes(d) ==
  pc[d] = "init_returned" /\ op[d] = "loaderInitialize" /\ pc'[d] = "idle"

\* C28: ModelLoader.initialized becomes true only in the step in which a
\* ModelLoader.initialize resumes from a ModelManager.initialize that
\* succeeded; when that call failed the loader rethrows and leaves
\* initialized as it is; an initialize of an initialized loader does
\* nothing; dispose sets initialized to false and leaves the manager's
\* engine and active id alone.
C28_LoaderInitialized ==
  [][LET c == Observed IN
     /\ initialized' /\ ~initialized =>
          \E d \in Callers : LoaderResumes(d) /\ initOk[d]
     /\ \A d \in Callers :
          LoaderResumes(d) /\ ~initOk[d] =>
            /\ initialized' = initialized
            /\ d = c => result'[d] = Rejected(LoadError)
     /\ Calls(c, "loaderInitialize") /\ initialized =>
          /\ UNCHANGED <<currentEngine, currentModelId, initialized>>
          /\ pc'[c] = "idle"
          /\ result'[c] = Resolved
     /\ Calls(c, "dispose") =>
          /\ ~initialized'
          /\ UNCHANGED <<currentEngine, currentModelId>>
          /\ result'[c] = Resolved]_vars

\* the other caller's ModelLoader.initialize loaded the primary engine and
\* then the observed caller disposed of the loader: the loader is not
\* initialized and the manager still holds the engine
C28_Witness ==
  LET c == Observed IN
  /\ calls = 2
  /\ op[c] = "dispose"
  /\ \E d \in Callers \ {c} : op[d] = "loaderInitialize" /\ pc[d] = "idle"
  /\ ~initialized
  /\ currentEngine = MODELS.PRIMARY.id
  /\ currentModelId = MODELS.PRIMARY.id

\* ------------------------------------------------------------------------
\* C29
\* ------------------------------------------------------------------------

\* the question holds a keyword of the group, in any case
Mentions(q, group) == \E w \in group : includes(toLowerCase(q), w)

\* the keyword groups of Variant A in their order of priority, with the
\* insight and the focus areas of each
IntentGroups ==
  << [keywords |-> {<<"s","e","c","u","r","i","t","y">>, <<"v","u","l","n","e","r","a","b","i","l","i","t","y">>, <<"e","x","p","l","o","i","t">>},
      insight |-> <<"U","s","e","r"," ","i","n","t","e","n","t"," ","i","s"," ","f","o","c","u","s","e","d"," ","o","n"," ","S","E","C","U","R","I","T","Y","."," ","P","r","i","o","r","i","t","i","z","i","n","g"," ","v","u","l","n","e","r","a","b","i","l","i","t","y"," ","s","c","a","n","n","i","n","g",".">>,
      focusAreas |-> <<<<"V","u","l","n","e","r","a","b","i","l","i","t","y"," ","A","s","s","e","s","s","m","e","n","t">>, <<"E","x","p","l","o","i","t"," ","A","n","a","l","y","s","i","s">>, <<"D","e","p","e","n","d","e","n","c","y"," ","C","h","e","c","k">>>>],
     [keywords |-> {<<"a","r","c","h","i","t","e","c","t","u","r","e">>, <<"d","e","s","i","g","n">>, <<"s","t","r","u","c","t","u","r","e">>},
      insight |-> <<"U","s","e","r"," ","i","n","t","e","n","t"," ","i","s"," ","f","o","c","u","s","e","d"," ","o","n"," ","A","R","C","H","I","T","E","C","T","U","R","E","."," ","P","r","i","o","r","i","t","i","z","i","n","g"," ","s","t","r","u","c","t","u","r","a","l"," ","a","n","a","l","y","s","i","s",".">>,
      focusAreas |-> <<<<"S","y","s","t","e","m"," ","D","e","s","i","g","n">>, <<"D","a","t","a"," ","F","l","o","w">>, <<"C","o","m","p","o","n","e","n","t"," ","I","n","t","e","r","a","c","t","i","o","n">>>>],
     [keywords |-> {<<"b","u","g">>, <<"f","i","x">>, <<"e","r","r","o","r">>},
      insight |-> <<"U","s","e","r"," ","i","n","t","e","n","t"," ","i","s"," ","f","o","c","u","s","e","d"," ","o","n"," ","B","U","G"," ","F","I","X","I","N","G","."," ","P","r","i","o","r","i","t","i","z","i","n","g"," ","l","o","g","i","c"," ","a","n","a","l","y","s","i","s",".">>,
      focusAreas |-> <<<<"E","r","r","o","r"," ","H","a","n","d","l","i","n","g">>, <<"L","o","g","i","c"," ","F","l","a","w","s">>, <<"D","e","b","u","g","g","i","n","g">>>>] >>

IntentInsight == <<"U","s","e","r"," ","i","n","t","e","n","t"," ","i","s"," ","f","o","c","u","s","e","d"," ","o","n"," ">>

\* the groups that the question mentions
Mentioned(q) == {g \in DOMAIN IntentGroups : Mentions(q, IntentGroups[g].keywords)}

\* C29: Variant A adds at most one intent insight; when the question
\* mentions a keyword group it adds the insight and the focus areas of the
\* first group mentioned, in the order security, architecture, bug fixing,
\* and of no other group; when the question mentions none it adds no intent
\* insight and no focus area. (The repository is empty, so that the intent
\* is the only source of focus areas.)
C29_IntentByPriority ==
  openPromise.state = "fulfilled" /\ EmptyRepository =>
    LET r == openPromise.value
        intents == insightsWith(r.insights, IntentInsight)
        found == Mentioned(question)
    IN IF found = {}
       THEN intents = {} /\ r.focusAreas = <<>>
       ELSE LET first == CHOOSE g \in found : \A h \in found : g <= h IN
            /\ Cardinality(intents) = 1
            /\ \A i \in intents : r.insights[i] = IntentGroups[first].insight
            /\ r.focusAreas = IntentGroups[first].focusAreas

\* Variant A returned for a question that mentions the bug-fixing group
\* and, after it, the security group: the intent is security
C29_Witness ==
  /\ openPromise.state = "fulfilled"
  /\ question = <<"F","i","x"," ","s","e","c","u","r","i","t","y">>
  /\ arrayIncludes(openPromise.value.insights, IntentGroups[1].insight)
  /\ ~arrayIncludes(openPromise.value.insights, IntentGroups[3].insight)

\* ------------------------------------------------------------------------
\* C30
\* ------------------------------------------------------------------------

PerformanceInsight == <<"P","e","r","s","p","e","c","t","i","v","e",":"," ","P","e","r","f","o","r","m","a","n","c","e"," ","E","n","g","i","n","e","e","r"," ","-"," ","F","o","c","u","s","i","n","g"," ","o","n"," ","l","o","o","p","s",","," ","d","a","t","a","b","a","s","e"," ","q","u","e","r","i","e","s",","," ","a","n","d"," ","r","e","s","o","u","r","c","e"," ","u","s","a","g","e",".">>

AttackerInsight == <<"P","e","r","s","p","e","c","t","i","v","e",":"," ","A","t","t","a","c","k","e","r"," ","-"," ","L","o","o","k","i","n","g"," ","f","o","r"," ","e","n","t","r","y"," ","p","o","i","n","t","s",","," ","u","n","v","a","l","i","d","a","t","e","d"," ","i","n","p","u","t","s",","," ","a","n","d"," ","w","e","a","k"," ","a","u","t","h",".">>

\* C30: Variant B adds exactly one perspective insight: the performance
\* engineer's when the question contains 'optimize' or 'fast', otherwise
\* the attacker's when it contains 'hack' or 'secure', otherwise the
\* maintainer's.
C30_PerspectiveByPriority ==
  adaPromise.state = "fulfilled" =>
    LET r == adaPromise.value
        perspectives == insightsWith(r.insights, PerspectiveInsight)
        expected ==
          IF Mentions(question, {<<"o","p","t","i","m","i","z","e">>, <<"f","a","s","t">>}) THEN PerformanceInsight
          ELSE IF Mentions(question, {<<"h","a","c","k">>, <<"s","e","c","u","r","e">>}) THEN AttackerInsight
          ELSE MaintainerInsight
    IN /\ Cardinality(perspectives) = 1
       /\ \A i \in perspectives : r.insights[i] = expected

\* Variant B returned for a question that contains 'hack' and, after it,
\* 'fast': the perspective is the performance engineer's
C30_Witness ==
  /\ adaPromise.state = "fulfilled"
  /\ question = <<"H","a","c","k"," ","f","a","s","t">>
  /\ arrayIncludes(adaPromise.value.insights, PerformanceInsight)
  /\ ~arrayIncludes(adaPromise.value.insights, AttackerInsight)


\* ------------------------------------------------------------------------
\* C31
\* ------------------------------------------------------------------------

\* the entries of type file whose content mentions one of the words
FilesMentioning(files, words) ==
  {i \in DOMAIN files : files[i].type = "file" /\ Mentions(files[i].content, words)}

SecurityCountInsight(n) ==
  <<"F","o","u","n","d"," ">> \o toString(n) \o <<" ","p","o","t","e","n","t","i","a","l"," ","s","e","c","u","r","i","t","y","-","s","e","n","s","i","t","i","v","e"," ","k","e","y","w","o","r","d","s"," ","(","p","a","s","s","w","o","r","d",","," ","s","e","c","r","e","t",","," ","t","o","k","e","n",")",".">>

TodoCountInsight(n) ==
  <<"F","o","u","n","d"," ">> \o toString(n) \o <<" ","T","O","D","O","/","F","I","X","M","E"," ","c","o","m","m","e","n","t","s",","," ","i","n","d","i","c","a","t","i","n","g"," ","t","e","c","h","n","i","c","a","l"," ","d","e","b","t",".">>

AllInsights ==
  {openPromise.value.insights[i] : i \in DOMAIN openPromise.value.insights}
    \cup {adaPromise.value.insights[i] : i \in DOMAIN adaPromise.value.insights}

\* the insights in a bucket
InBucket(b) == {b[i] : i \in DOMAIN b}

\* C32: an insight is in securityConcerns iff it contains security,
\* vulnerability or auth, in architectureInsights iff it contains
\* architecture, structure or flow, in codeQualityIssues iff it contains
\* todo, technical debt, readability or code quality, in any case; the
\* three tests are independent of each other.
C32_BucketsByKeyword ==
  Combined =>
    LET v == combined.value IN
    /\ InBucket(v.securityConcerns) =
         {i \in AllInsights : Mentions(i, {<<"s","e","c","u","r","i","t","y">>, <<"v","u","l","n","e","r","a","b","i","l","i","t","y">>, <<"a","u","t","h">>})}
    /\ InBucket(v.architectureInsights) =
         {i \in AllInsights : Mentions(i, {<<"a","r","c","h","i","t","e","c","t","u","r","e">>, <<"s","t","r","u","c","t","u","r","e">>, <<"f","l","o","w">>})}
    /\ InBucket(v.codeQualityIssues) =
         {i \in AllInsights :
            Mentions(i, {<<"t","o","d","o">>, <<"t","e","c","h","n","i","c","a","l"," ","d","e","b","t">>, <<"r","e","a","d","a","b","i","l","i","t","y">>, <<"c","o","d","e"," ","q","u","a","l","i","t","y">>})}

\* a combination in which one insight is in two buckets, one in a single
\* bucket and one in none
C32_Witness ==
  /\ Combined
  /\ openPromise.value.insights = <<<<"N","o","t","e",":"," ","R","e","a","d","a","b","i","l","i","t","y"," ","m","a","t","t","e","r","s">>, <<"N","o","t","h","i","n","g"," ","t","o"," ","s","e","e">>>>
  /\ arrayIncludes(combined.value.securityConcerns, <<"W","e","a","k"," ","a","u","t","h"," ","f","l","o","w">>)
  /\ arrayIncludes(combined.value.architectureInsights, <<"W","e","a","k"," ","a","u","t","h"," ","f","l","o","w">>)
  /\ combined.value.codeQualityIssues = <<<<"N","o","t","e",":"," ","R","e","a","d","a","b","i","l","i","t","y"," ","m","a","t","t","e","r","s">>>>
  /\ \A b \in {1, 2, 3} : ~arrayIncludes(Buckets(combined.value)[b], <<"N","o","t","h","i","n","g"," ","t","o"," ","s","e","e">>)


\* ------------------------------------------------------------------------
\* C33
\* ------------------------------------------------------------------------

\* the part of a path after its last '/'
basename(path) ==
  LET slashes == {i \in DOMAIN path : path[i] = "/"}
  IN IF slashes = {} THEN path
     ELSE SubSeq(path, Max(slashes) + 1, Len(path))

KeyFileNames ==
  {<<"R","E","A","D","M","E",".","m","d">>, <<"p","a","c","k","a","g","e",".","j","s","o","n">>, <<"r","e","q","u","i","r","e","m","e","n","t","s",".","t","x","t">>, <<"D","o","c","k","e","r","f","i","l","e">>,
   <<"d","o","c","k","e","r","-","c","o","m","p","o","s","e",".","y","m","l">>, <<"m","a","i","n",".","p","y">>, <<"i","n","d","e","x",".","j","s">>, <<"A","p","p",".","t","s">>}

\* C33: Variant A's confidence is 0.85 plus 0.02 for every entry whose
\* basename is a key file, the same name in two directories counting twice,
\* and it is not clamped.
C33_ConfidenceCountsKeyFiles ==
  openPromise.state = "fulfilled" =>
    openPromise.value.confidence =
      850 + 20 * Cardinality({i \in DOMAIN context.files :
                                basename(context.files[i].path) \in KeyFileNames})

\* Variant A returned for README.md in MaxKeyFiles directories: every one
\* of them counts and the confidence is above 1
C33_Witness ==
  /\ openPromise.state = "fulfilled"
  /\ context = KeyFilesContext(MaxKeyFiles)
  /\ openPromise.value.confidence = 850 + 20 * MaxKeyFiles
  /\ openPromise.value.confidence > Thousandths


\* ------------------------------------------------------------------------
\* C34
\* ------------------------------------------------------------------------

LargeTierInsight ==
  <<"L","a","r","g","e"," ","r","e","p","o","s","i","t","o","r","y"," ","d","e","t","e","c","t","e","d"," ","(",">","1","0","0"," ","f","i","l","e","s",")","."," ","A","p","p","l","y","i","n","g"," ","m","a","c","r","o","-","l","e","v","e","l"," ","a","r","c","h","i","t","e","c","t","u","r","a","l"," ","a","n","a","l","y","s","i","s"," ","f","i","r","s","t",".">>

\* C34: Variant B adds exactly one size-tier insight: the macro-level one
\* when totalFiles is above 100, the micro-level one otherwise, 100 and 0
\* included.
C34_OneSizeTier ==
  adaPromise.state = "fulfilled" =>
    LET a == adaPromise.value.insights
        tiers == {i \in DOMAIN a : a[i] \in {LargeTierInsight, SmallTierInsight}}
    IN /\ Cardinality(tiers) = 1
       /\ \A i \in tiers :
            a[i] = IF context.totalFiles > 100 THEN LargeTierInsight ELSE SmallTierInsight

\* Variant B returned for a repository of exactly 100 files: the tier is
\* the micro-level one
C34_Witness ==
  /\ adaPromise.state = "fulfilled"
  /\ context.totalFiles = 100
  /\ Len(context.files) = 100
  /\ arrayIncludes(adaPromise.value.insights, SmallTierInsight)
  /\ ~arrayIncludes(adaPromise.value.insights, LargeTierInsight)

\* ------------------------------------------------------------------------
\* C35
\* ------------------------------------------------------------------------

\* the text between 'Dominant language detected: ' and '. Applying ' in
\* the insights of a result; no text when there is no such insight
DetectedLanguages(a) ==
  {lang \in {extensionOf(context.files[i].path) : i \in DOMAIN context.files} :
     \E i \in DOMAIN a :
       startsWith(a[i], DominantLanguageInsight \o lang \o <<"."," ","A","p","p","l","y","i","n","g"," ">>)}

\* C35: Variant B's dominant extension is the one that most entries have,
\* and among those with the same highest count the one that comes first in
\* context.files.
C35_DominantIsFirstOfMostFrequent ==
  adaPromise.state = "fulfilled" /\ context.files # <<>> =>
    LET f == context.files
        ext(i) == extensionOf(f[i].path)
        count(e) == Cardinality({i \in DOMAIN f : ext(i) = e})
        most == {i \in DOMAIN f : \A j \in DOMAIN f : count(ext(j)) <= count(ext(i))}
        first == CHOOSE i \in most : \A j \in most : i <= j
    IN DetectedLanguages(adaPromise.value.insights) = {ext(first)}

\* ------------------------------------------------------------------------
\* Actions of the App
\* ------------------------------------------------------------------------

\* the requests that are awaiting the orchestrator or the model
InFlight == {r \in DOMAIN requests : requests[r].pc # "done"}

Notices == {m \in DOMAIN chatMessages : chatMessages[m].content = EnableNotice}

\* sendMessage, up to its first await
sendMessage ==
  LET q == trim(chatInput.value) IN
  IF q = <<>> \/ repositoryData = Null
  THEN UNCHANGED <<chatInput, sendButton, loader, chatMessages, requests>>
  ELSE IF ~modelToggle
  THEN /\ Notices = {}
       /\ chatMessages' = addMessage(chatMessages, "assistant", EnableNotice, FALSE)
       /\ UNCHANGED <<chatInput, sendButton, loader, requests>>
  ELSE LET withUser == addMessage(chatMessages, "user", q, FALSE)
           withLoading == addMessage(withUser, "assistant", AnalyzingText, TRUE)
       IN /\ Len(requests) < MaxRequests
          /\ chatMessages' = withLoading
          /\ chatInput' = [value |-> <<>>, disabled |-> TRUE]
          /\ sendButton' = [disabled |-> TRUE]
          /\ loader' = TRUE
          /\ requests' = Append(requests, [pc |-> "reasoning",
                                           loadingId |-> messageIdOf(withLoading)])

\* the end of sendMessage: the last statement of the try block or the catch
\* block, then the finally block
settles(r, content) ==
  /\ chatMessages' = updateMessage(chatMessages, requests[r].loadingId, content)
  /\ loader' = FALSE
  /\ chatInput' = [chatInput EXCEPT !.disabled = FALSE]
  /\ sendButton' = [disabled |-> FALSE]
  /\ requests' = [requests EXCEPT ![r].pc = "done"]

\* the user types into the chat input
typeQuestion(v) ==
  /\ ~chatInput.disabled
  /\ chatInput' = [chatInput EXCEPT !.value = v]
  /\ UNCHANGED <<repositoryData, modelToggle, sendButton, quickActions, loader,
                 reasoningUI, chatMessages, requests, timers, processing>>
  /\ UNCHANGED <<generationVars, reasoningVars, detectorVars>>

\* the user presses Enter in the chat input
pressEnter ==
  /\ ~chatInput.disabled
  /\ sendMessage
  /\ UNCHANGED <<repositoryData, modelToggle, quickActions, reasoningUI,
                 timers, processing>>
  /\ UNCHANGED <<generationVars, reasoningVars, detectorVars>>

\* the user clicks the send button
clickSend ==
  /\ ~sendButton.disabled
  /\ sendMessage
  /\ UNCHANGED <<repositoryData, modelToggle, quickActions, reasoningUI,
                 timers, processing>>
  /\ UNCHANGED <<generationVars, reasoningVars, detectorVars>>

\* the user clicks a quick-action button (while no auto-send timer is pending)
clickQuickAction(q) ==
  /\ quickActions
  /\ IF q # <<>> /\ repositoryData # Null
     THEN /\ timers = 0
          /\ chatInput' = [chatInput EXCEPT !.value = q]
          /\ timers' = timers + 1
     ELSE UNCHANGED <<chatInput, timers>>
  /\ UNCHANGED <<repositoryData, modelToggle, sendButton, quickActions, loader,
                 reasoningUI, chatMessages, requests, processing>>
  /\ UNCHANGED <<generationVars, reasoningVars, detectorVars>>

\* the auto-send timer of a quick-action click fires
timerFires ==
  /\ timers > 0
  /\ timers' = timers - 1
  /\ sendMessage
  /\ UNCHANGED <<repositoryData, modelToggle, quickActions, reasoningUI,
                 processing>>
  /\ UNCHANGED <<generationVars, reasoningVars, detectorVars>>

\* the user switches the model toggle
toggleModel ==
  /\ modelToggle' = ~modelToggle
  /\ UNCHANGED <<repositoryData, chatInput, sendButton, quickActions, loader,
                 reasoningUI, chatMessages, requests, timers, processing>>
  /\ UNCHANGED <<generationVars, reasoningVars, detectorVars>>

\* the user drops or selects files: processFiles, up to its first await
processFilesBegins ==
  /\ processing = 0
  /\ processing' = processing + 1
  /\ loader' = TRUE
  /\ UNCHANGED <<repositoryData, modelToggle, chatInput, sendButton, quickActions,
                 reasoningUI, chatMessages, requests, timers>>
  /\ UNCHANGED <<generationVars, reasoningVars, detectorVars>>

\* processFiles after its last await: the repository is stored, or
\* building it threw
processFilesEnds(ok) ==
  /\ processing > 0
  /\ processing' = processing - 1
  /\ loader' = FALSE
  /\ IF ok
     THEN /\ repositoryData' = Loaded
          /\ chatInput' = [chatInput EXCEPT !.disabled = FALSE]
          /\ sendButton' = [disabled |-> FALSE]
          /\ reasoningUI' = 0
          /\ quickActions' = TRUE
     ELSE UNCHANGED <<repositoryData, chatInput, sendButton, reasoningUI, quickActions>>
  /\ UNCHANGED <<modelToggle, chatMessages, requests, timers>>
  /\ UNCHANGED <<generationVars, reasoningVars, detectorVars>>

\* the reasoningOrchestrator.analyze call of request r settles: the panel is
\* updated and the model is called, or the catch and finally blocks run
reasoningSettles(r) ==
  /\ r \in DOMAIN requests
  /\ requests[r].pc = "reasoning"
  /\ \/ /\ reasoningUI' = r
        /\ requests' = [requests EXCEPT ![r].pc = "model"]
        /\ UNCHANGED <<chatInput, sendButton, loader, chatMessages>>
     \/ /\ \E e \in ReasoningErrors : settles(r, errorText(e))
        /\ UNCHANGED reasoningUI
  /\ UNCHANGED <<repositoryData, modelToggle, quickActions, timers,
                 processing>>
  /\ UNCHANGED <<generationVars, reasoningVars, detectorVars>>

\* the modelLoader.analyzeRepository call of request r settles
modelSettles(r) ==
  /\ r \in DOMAIN requests
  /\ requests[r].pc = "model"
  /\ \/ \E a \in Answers : settles(r, a)
     \/ \E e \in GenerationErrors : settles(r, errorText(e))
  /\ UNCHANGED <<repositoryData, modelToggle, quickActions, reasoningUI, timers,
                 processing>>
  /\ UNCHANGED <<generationVars, reasoningVars, detectorVars>>

\* the call that request r awaits settles
requestContinues(r) == reasoningSettles(r) \/ modelSettles(r)

InitApp ==
  /\ GenerationIdle
  /\ ReasoningIdle
  /\ DetectorIdle
  /\ AppIdle

NextApp ==
  \/ \E v \in TypedValues : typeQuestion(v)
  \/ pressEnter
  \/ clickSend
  \/ \E q \in QuickQuestions : clickQuickAction(q)
  \/ timerFires
  \/ toggleModel
  \/ processFilesBegins
  \/ \E ok \in BOOLEAN : processFilesEnds(ok)
  \/ \E r \in 1..MaxRequests : reasoningSettles(r)
  \/ \E r \in 1..MaxRequests : modelSettles(r)

\* the awaited call of every request settles in the end
SpecApp ==
  InitApp /\ [][NextApp]_vars /\ \A r \in 1..MaxRequests : WF_vars(requestContinues(r))

\* ------------------------------------------------------------------------
\* C36: one sendMessage request at a time
\* ------------------------------------------------------------------------

\* C36: at most one sendMessage request is in flight at a time: while a
\* request is awaiting the orchestrator or the model, no UI event (Enter key,
\* send button, quick-action button) starts a second one.
C36_OneRequestInFlight == Cardinality(InFlight) <= 1

\* ------------------------------------------------------------------------
\* C37: how a sendMessage request ends
\* ------------------------------------------------------------------------

ErrorTexts == {errorText(e) : e \in ReasoningErrors \cup GenerationErrors}

\* the loading message of request r was replaced by an answer or an error text
Replaced(r) ==
  LET m == chatMessages[requests[r].loadingId] IN
  /\ m.role = "assistant"
  /\ ~m.loading
  /\ m.content \in Answers \cup ErrorTexts

Ended(r) == r \in DOMAIN requests /\ requests[r].pc = "done"

\* request r ends in this step
Ends(r) == r \in DOMAIN requests /\ requests[r].pc # "done" /\ requests'[r].pc = "done"

\* C37: every sendMessage that passes its initial guards ends, whether the
\* orchestrator or the model succeeds or throws (in the end no request is
\* in flight any more), and when it ends the chat input and the send button
\* are enabled, the loader is hidden and its loading message is replaced by
\* the answer or an error text, for good.
C37_RequestEndsRestored ==
  /\ [][\A r \in 1..MaxRequests :
          Ends(r) => /\ ~chatInput'.disabled
                     /\ ~sendButton'.disabled
                     /\ ~loader'
                     /\ chatMessages[requests[r].loadingId].loading
                     /\ Replaced(r)']_vars
  /\ [](\A r \in 1..MaxRequests : Ended(r) => Replaced(r))
  /\ <>[](InFlight = {})

\* two requests ended, one with the answer and one with an error text, and
\* the page is ready for the next question
C37_Witness ==
  /\ Len(requests) = 2
  /\ Ended(1) /\ Ended(2)
  /\ chatMessages[requests[1].loadingId].content \in ErrorTexts
  /\ chatMessages[requests[2].loadingId].content \in Answers
  /\ ~chatMessages[requests[1].loadingId].loading
  /\ ~chatInput.disabled /\ ~sendButton.disabled /\ ~loader

====
